---------------------------- MODULE Spec2Model ----------------------------
(***************************************************************************)
(* Transformer-XL (TensorFlow, Chinese corpus variant).                    *)
(*                                                                         *)
(*   tf/data_utils_chinese.py : batchify, create_ordered_tfrecords         *)
(*   tf/model.py              : rel_shift, _create_mask, _cache_mem,       *)
(*                              transformer                                *)
(*                                                                         *)
(* Two state machines share the module.  Spec runs one call of             *)
(* create_ordered_tfrecords record by record; SpecXL runs consecutive      *)
(* forward passes of transformer.  Python indices are 0-based and TLA+     *)
(* sequences 1-based: s[k] in the source is s[k + 1] here.                 *)
(***************************************************************************)
EXTENDS Integers, Sequences, FiniteSets, TLC

VARIABLES
    \* ---- create_ordered_tfrecords: arguments
    data, batch_size, tgt_len, num_core_per_host, cutoffs, bin_sizes,
    num_passes, use_tpu,
    \* ---- create_ordered_tfrecords: locals
    batched_data,   \* the [batch_size, num_step] grid, a sequence of rows
    t,              \* start column of the current window
    idx,            \* current batch row
    inp_cnts,       \* slot counters of the input tokens, one per tail bucket
    tgt_cnts,       \* slot counters of the label tokens, one per tail bucket
    num_batch,      \* windows written so far
    records,        \* what record_writer has received, in order
    pc,             \* position in create_ordered_tfrecords
    \* ---- transformer: arguments and results of consecutive forward passes
    n_layer,
    mem_len,        \* None or an integer
    same_length, clamp_len,
    mems,           \* None or one memory (a sequence of states) per layer
    old_mems,       \* the mems the last pass received
    dec_inp,        \* the segment the last pass received (a sequence of states)
    attn_mask,      \* the mask of the last pass
    pos_seq,        \* the position table of the last pass
    BD,             \* the shifted position term of the last pass
    step,           \* forward passes made
    \* ---- get_bin_sizes: locals (its arguments are data, batch_size,
    \* tgt_len and cutoffs, its result is bin_sizes)
    cur_b,          \* b, the index of the current tail bucket
    cur_bin_size,   \* bin_size, the capacity of the current bucket
    \* ---- convert_to_tfrecords and load_record_info
    split,
    flags_use_tpu,  \* FLAGS.use_tpu, which the consumer is configured with too
    save_dir,       \* the manifest files written, by name
    record_info_path,   \* the name load_record_info opens
    \* ---- get_input_fn.input_fn, called once on every host
    num_hosts,
    file_lens,      \* the number of records of every data file of the manifest
    per_core_bsz,
    host_reads,     \* per host: None, or the records of one epoch in order
    \* ---- mask_adaptive_logsoftmax and mul_adaptive_logsoftmax on one batch
    target,         \* [row][position], the labels of the batch
    head_target,    \* the head_labels of the batch
    perms,          \* <<tgt_mask, tgt_perm_0, tgt_perm_1, ...>> of the batch
    mul_nll,        \* None, or what mul_adaptive_logsoftmax returned
    mask_nll,       \* None, or what mask_adaptive_logsoftmax returned
    \* ---- input_fn on one host, fed with the records of the producer
    host_id,
    dataset,        \* the parsed and cached examples of one epoch
    batches         \* the batches handed out so far

encArgs == <<data, batch_size, tgt_len, num_core_per_host, cutoffs, bin_sizes,
             num_passes, use_tpu>>
encVars == <<batched_data, t, idx, inp_cnts, tgt_cnts, num_batch, records, pc>>
xlArgs  == <<n_layer, mem_len, same_length, clamp_len>>
xlVars  == <<mems, old_mems, dec_inp, attn_mask, pos_seq, BD, step>>
binVars == <<cur_b, cur_bin_size>>
\* the variables of the other functions, for create_ordered_tfrecords and
\* for transformer
nameVars == <<split, flags_use_tpu, save_dir, record_info_path>>
hostVars == <<num_hosts, file_lens, per_core_bsz, host_reads>>
lossVars == <<target, head_target, perms, mul_nll, mask_nll>>
feedVars == <<host_id, dataset, batches>>
otherVars == <<binVars, nameVars, hostVars, lossVars, feedVars>>
vars    == <<encArgs, encVars, xlArgs, xlVars, otherVars>>

\* Python's None where a tensor or a list of tensors may stand, and a value
\* that is present
None    == [some |-> FALSE, val |-> <<>>]
Some(v) == [some |-> TRUE, val |-> v]

\* mem_len = None (model.py 445)
NoneLen == -1

(***************************************************************************)
(* Bounds of the model.                                                    *)
(***************************************************************************)
MaxN      == 6   \* longest token sequence given to create_ordered_tfrecords
MaxBsz    == 3   \* largest batch_size
MaxTgtLen == 2   \* largest tgt_len
MaxCfgN   == 3   \* longest token sequence of the configuration runs
NLayer    == 2   \* n_layer of the runs of transformer
MaxMemLen == 5   \* largest mem_len
MaxQlen   == 7   \* longest segment given to transformer
MaxStep   == 2   \* forward passes in a row
MaxBinN   == 4   \* longest token sequence given to get_bin_sizes
MaxBinSize == 21  \* largest capacity before rounding, in the one-window runs
MaxNameBsz == 11  \* largest per-host batch size in a manifest name
MaxHosts  == 3   \* largest num_hosts
MaxNumBatch == 4 \* most windows in a manifest
MaxCoreBsz == 2  \* most rows of the batch of one core
MaxCells  == 4   \* most labels of the batch of one core

Min(a, b) == IF a < b THEN a ELSE b
Max(a, b) == IF a > b THEN a ELSE b

\* Python s[lo:hi] for 0 <= lo
Slice(s, lo, hi) == SubSeq(s, lo + 1, Min(hi, Len(s)))

RECURSIVE Concat(_)
Concat(ss) == IF ss = <<>> THEN <<>> ELSE Head(ss) \o Concat(Tail(ss))

(***************************************************************************)
(* batchify (data_utils_chinese.py 140-164).  starts are the values        *)
(* np.random.randint(0, data_len) returned, one per pass.                  *)
(***************************************************************************)
\* variant: a pass is cut from the data itself and does not wrap around
batchify_passes_no_wrap(d, starts) ==
    Concat([i \in 1..Len(starts) |-> Slice(d, starts[i], starts[i] + Len(d))])

\* lines 150-157
batchify_passes(d, starts) ==
    LET data_len    == Len(d)
        double_data == d \o d
        data_list   == [i \in 1..Len(starts) |->
                          Slice(double_data, starts[i], starts[i] + data_len)]
    IN  Concat(data_list)

batchify_reshape(d, bsz) ==
    LET num_step == Len(d) \div bsz
        cut      == Slice(d, 0, bsz * num_step)
    IN  [r \in 1..bsz |-> Slice(cut, (r - 1) * num_step, r * num_step)]

batchify(d, bsz, passes, starts) ==
    batchify_reshape(IF passes > 1 THEN batchify_passes(d, starts) ELSE d, bsz)

\* batched_data.shape[1]
num_step_of(grid) == Len(grid[1])

(***************************************************************************)
(* The body of the record loop (data_utils_chinese.py 192-249).            *)
(***************************************************************************)
\* variant: the matching positions are listed from the last to the first
np_where_descending(x, left, right) ==
    SelectSeq([i \in 1..Len(x) |-> Len(x) - i],
              LAMBDA p : x[p + 1] >= left /\ x[p + 1] < right)

\* np.where((x >= left) * (x < right))[0]: the 0-based positions, ascending
np_where(x, left, right) ==
    SelectSeq([i \in 1..Len(x) |-> i - 1],
              LAMBDA p : x[p + 1] >= left /\ x[p + 1] < right)

\* ((x >= left) * (x < right)).astype(np.float32)
bin_mask(x, left, right) ==
    [i \in 1..Len(x) |-> IF x[i] >= left /\ x[i] < right THEN 1 ELSE 0]

\* zip(cutoffs[1:-1], cutoffs[2:]): the tail buckets, b = 0, 1, ...
tail_buckets(cs) ==
    [b \in 1..Max(0, Len(cs) - 2) |-> <<cs[b + 1], cs[b + 2]>>]

pos_per_bin(x, cs) ==
    [b \in 1..Len(tail_buckets(cs)) |->
        np_where(x, tail_buckets(cs)[b][1], tail_buckets(cs)[b][2])]

\* lines 219-227: head_labels[tgt_pos] = cutoffs[1] + b, bucket after bucket
RECURSIVE head_labels_from(_, _, _, _)
head_labels_from(hl, labels, cs, b) ==
    IF b > Len(tail_buckets(cs)) THEN hl
    ELSE LET tgt_pos == np_where(labels, tail_buckets(cs)[b][1],
                                 tail_buckets(cs)[b][2])
             hit(i)  == \E k \in 1..Len(tgt_pos) : tgt_pos[k] = i - 1
         IN  head_labels_from(
                 [i \in 1..Len(hl) |-> IF hit(i) THEN cs[2] + (b - 1) ELSE hl[i]],
                 labels, cs, b + 1)

\* variant: the tail labels are left as they are
head_labels_unchanged(labels, cs) == labels

\* lines 219, 229
head_labels_of(labels, cs) == head_labels_from(labels, labels, cs, 1)

\* variant: the capacity test is off by one
slot_free_upto(cnt, bin_size) == cnt <= bin_size

\* line 236: the capacity test of the scan of one bucket's positions
slot_free(cnt, bin_size) == cnt < bin_size

RECURSIVE perm_scan(_, _, _, _)
perm_scan(pos, cnt, bin_size, idx_tuple) ==
    IF pos = <<>> THEN [idx_tuple |-> idx_tuple, cnt |-> cnt]
    ELSE IF slot_free(cnt, bin_size)
         THEN perm_scan(Tail(pos), cnt + 1, bin_size,
                        Append(idx_tuple, <<Head(pos), cnt>>))
         ELSE [idx_tuple |-> idx_tuple, cnt |-> cnt]

\* lines 242-243: np.array(idx_tuple).reshape(n_tup * 2)
flatten_tup(idx_tuple) == Concat(idx_tuple)

\* lines 232-246: _add_perm_feature, buckets b0.. in turn; cnts is updated
RECURSIVE add_perm_feature(_, _, _, _, _)
add_perm_feature(ppb, cnts, bins, b, acc) ==
    IF b > Len(ppb) THEN [cnt |-> acc.cnt, tup |-> acc.tup, cnts |-> cnts]
    ELSE LET s == perm_scan(ppb[b], cnts[b], bins[b], <<>>)
         IN  add_perm_feature(ppb, [cnts EXCEPT ![b] = s.cnt], bins, b + 1,
                 [cnt |-> Append(acc.cnt, Len(s.idx_tuple)),
                  tup |-> Append(acc.tup, flatten_tup(s.idx_tuple))])

perm_feature(x, cs, cnts, bins) ==
    add_perm_feature(pos_per_bin(x, cs), cnts, bins, 1,
                     [cnt |-> <<>>, tup |-> <<>>])

\* variant: the counters are refreshed once per window only
shard_starts_window(i, bsz, cores) == i = 0

\* variant: the counters are refreshed at every row
shard_starts_row(i, bsz, cores) == TRUE

\* line 215: idx % (batch_size // num_core_per_host) == 0
shard_starts(i, bsz, cores) == i % (bsz \div cores) = 0

\* lines 216-217
fresh_cnts(bins) == [b \in 1..Len(bins) |-> 0]

(***************************************************************************)
(* One record (lines 192-249).  The feature dict is a record; the          *)
(* per-bucket features "<prefix>_cnt_<b>" and "<prefix>_tup_<b>" are the   *)
(* b-th entries of the fields <prefix>_cnt and <prefix>_tup.               *)
(***************************************************************************)
\* variant: the token held back for the last label is forgotten
cur_tgt_len_whole_row(grid, tt, L) == Min(num_step_of(grid) - tt, L)

\* line 185
cur_tgt_len_of(grid, tt, L) == Min(num_step_of(grid) - 1 - tt, L)

inputs_of(grid, i, tt, L) ==
    Slice(grid[i + 1], tt, tt + cur_tgt_len_of(grid, tt, L))

\* variant: the labels are not shifted by one token
labels_unshifted(grid, i, tt, L) ==
    Slice(grid[i + 1], tt, tt + cur_tgt_len_of(grid, tt, L))

\* line 193
labels_of(grid, i, tt, L) ==
    Slice(grid[i + 1], tt + 1, tt + cur_tgt_len_of(grid, tt, L) + 1)

\* variant: the buckets are encoded in both modes
with_buckets_any_mode(cs, tpu) == Len(cs) > 0

\* line 201
with_buckets(cs, tpu) == Len(cs) > 0 /\ tpu

\* line 203
bins_valid(cs, bins) == Len(cs) - Len(bins) = 2

\* the counters the record starts from (lines 215-217)
cnts_at(i, bsz, cores, bins, cnts) ==
    IF shard_starts(i, bsz, cores) THEN fresh_cnts(bins) ELSE cnts

plain_feature(inputs, labels) == [inputs |-> inputs, labels |-> labels]

bucket_feature(inputs, labels, cs, bins, icnts, tcnts) ==
    LET ip == perm_feature(inputs, cs, icnts, bins)
        tp == perm_feature(labels, cs, tcnts, bins)
    IN  [inputs      |-> inputs,
         labels      |-> labels,
         inp_mask    |-> bin_mask(inputs, cs[1], cs[2]),
         tgt_mask    |-> bin_mask(labels, cs[1], cs[2]),
         head_labels |-> head_labels_of(labels, cs),
         inp_cnt     |-> ip.cnt,
         inp_tup     |-> ip.tup,
         tgt_cnt     |-> tp.cnt,
         tgt_tup     |-> tp.tup]

(***************************************************************************)
(* Inputs of create_ordered_tfrecords.                                     *)
(***************************************************************************)
Tokens == 0..2

CoreChoices   == {1, 2}
CutoffChoices ==
    {<<>>, <<0, 3>>, <<0, 1, 3>>, <<0, 1, 2, 3>>, <<0, 2, 1, 3>>}
CfgBinChoices == {<<>>, <<2>>, <<1, 2>>}

\* The arguments of one call.  starts are the values np.random.randint
\* returns in batchify (line 156), one per pass when num_passes > 1.
Call(d, bsz, L, cores, cs, bins, passes, tpu, starts) ==
    /\ data = d /\ batch_size = bsz /\ tgt_len = L
    /\ num_core_per_host = cores /\ cutoffs = cs /\ bin_sizes = bins
    /\ num_passes = passes /\ use_tpu = tpu
    \* line 181
    /\ batched_data = batchify(d, bsz, passes, starts)

Zeros(r) == [i \in 1..r |-> 0]

\* static mode, two tail buckets; the token sequences fill a
\* [bsz, num_step] grid with num_step >= 2, and the tokens batchify cuts
\* off (line 161) are 0
StaticCall ==
    \E bsz \in 1..MaxBsz :
      \E S \in 2..(MaxN \div bsz), r \in 0..(bsz - 1) :
        /\ bsz * S + r <= MaxN
        /\ \E g \in [1..(bsz * S) -> Tokens], L \in 1..MaxTgtLen,
              cores \in CoreChoices :
              Call(g \o Zeros(r), bsz, L, cores, <<0, 1, 2, 3>>, <<1, 2>>, 1,
                   TRUE, <<>>)

\* both modes, every shape of cutoffs and bin_sizes
ConfigCall ==
    \E n \in 1..MaxCfgN :
      \E d \in [1..n -> Tokens], bsz \in 1..2, L \in 1..2,
         cs \in CutoffChoices, bins \in CfgBinChoices, tpu \in BOOLEAN :
         Call(d, bsz, L, 1, cs, bins, 1, tpu, <<>>)

\* several passes
PassCall ==
    \E n \in 1..3 :
      \E d \in [1..n -> Tokens], bsz \in 1..2, starts \in [1..2 -> 0..(n - 1)] :
         Call(d, bsz, 1, 1, <<0, 1, 2, 3>>, <<1, 2>>, 2, TRUE, starts)

BinIdle == cur_b = 0 /\ cur_bin_size = 0

NameIdle ==
    /\ split = "train" /\ flags_use_tpu = FALSE /\ save_dir = {}
    /\ record_info_path = <<>>

HostIdle ==
    /\ num_hosts = 1 /\ file_lens = <<>> /\ per_core_bsz = 1
    /\ host_reads = <<>>

LossIdle ==
    /\ target = <<>> /\ head_target = <<>> /\ perms = <<>>
    /\ mul_nll = None /\ mask_nll = None

FeedIdle == host_id = 0 /\ dataset = <<>> /\ batches = <<>>

OtherIdle == BinIdle /\ NameIdle /\ HostIdle /\ LossIdle /\ FeedIdle

XLIdle ==
    /\ n_layer = 0 /\ mem_len = NoneLen /\ same_length = FALSE /\ clamp_len = -1
    /\ mems = None /\ old_mems = None /\ dec_inp = <<>>
    /\ attn_mask = <<>> /\ pos_seq = <<>> /\ BD = <<>> /\ step = 0

(***************************************************************************)
(* create_ordered_tfrecords (lines 167-259), one record per step.          *)
(***************************************************************************)
Init ==
    /\ StaticCall \/ ConfigCall \/ PassCall
    /\ t = 0 /\ idx = 0 /\ inp_cnts = <<>> /\ tgt_cnts = <<>>
    /\ num_batch = 0 /\ records = <<>> /\ pc = "for_t"
    /\ XLIdle /\ OtherIdle

\* lines 184-191: the next window starts
NextWindow ==
    /\ pc = "for_t"
    /\ t < num_step_of(batched_data) - 1
    /\ ~(use_tpu /\ cur_tgt_len_of(batched_data, t, tgt_len) < tgt_len)
    /\ idx' = 0
    /\ pc' = "for_idx"
    /\ UNCHANGED <<batched_data, t, inp_cnts, tgt_cnts, num_batch, records>>
    /\ UNCHANGED <<encArgs, xlArgs, xlVars, otherVars>>

\* lines 187-188, 256-259: the remainder is dropped, the writer closed
DropRemainder ==
    /\ pc = "for_t"
    /\ t < num_step_of(batched_data) - 1
    /\ use_tpu /\ cur_tgt_len_of(batched_data, t, tgt_len) < tgt_len
    /\ pc' = "done"
    /\ UNCHANGED <<batched_data, t, idx, inp_cnts, tgt_cnts, num_batch, records>>
    /\ UNCHANGED <<encArgs, xlArgs, xlVars, otherVars>>

\* lines 184, 256-259: range(...) is exhausted, the writer closed
LoopEnd ==
    /\ pc = "for_t"
    /\ t >= num_step_of(batched_data) - 1
    /\ pc' = "done"
    /\ UNCHANGED <<batched_data, t, idx, inp_cnts, tgt_cnts, num_batch, records>>
    /\ UNCHANGED <<encArgs, xlArgs, xlVars, otherVars>>

\* lines 203-204: the assertion fails
AssertFail ==
    /\ pc = "for_idx" /\ idx < batch_size
    /\ with_buckets(cutoffs, use_tpu)
    /\ ~bins_valid(cutoffs, bin_sizes)
    /\ pc' = "AssertionError"
    /\ UNCHANGED <<batched_data, t, idx, inp_cnts, tgt_cnts, num_batch, records>>
    /\ UNCHANGED <<encArgs, xlArgs, xlVars, otherVars>>

\* line 215: batch_size // num_core_per_host is 0
ZeroDivision ==
    /\ pc = "for_idx" /\ idx < batch_size
    /\ with_buckets(cutoffs, use_tpu)
    /\ bins_valid(cutoffs, bin_sizes)
    /\ batch_size \div num_core_per_host = 0
    /\ pc' = "ZeroDivisionError"
    /\ UNCHANGED <<batched_data, t, idx, inp_cnts, tgt_cnts, num_batch, records>>
    /\ UNCHANGED <<encArgs, xlArgs, xlVars, otherVars>>

\* lines 192-252: one record is built and written
WriteRecord ==
    /\ pc = "for_idx" /\ idx < batch_size
    /\ LET inputs == inputs_of(batched_data, idx, t, tgt_len)
           labels == labels_of(batched_data, idx, t, tgt_len)
       IN  IF with_buckets(cutoffs, use_tpu)
           THEN /\ bins_valid(cutoffs, bin_sizes)
                /\ batch_size \div num_core_per_host # 0
                /\ LET icnts == cnts_at(idx, batch_size, num_core_per_host,
                                        bin_sizes, inp_cnts)
                       tcnts == cnts_at(idx, batch_size, num_core_per_host,
                                        bin_sizes, tgt_cnts)
                   IN  /\ records' = Append(records,
                              bucket_feature(inputs, labels, cutoffs, bin_sizes,
                                             icnts, tcnts))
                       /\ inp_cnts' = perm_feature(inputs, cutoffs, icnts,
                                                   bin_sizes).cnts
                       /\ tgt_cnts' = perm_feature(labels, cutoffs, tcnts,
                                                   bin_sizes).cnts
           ELSE /\ records' = Append(records, plain_feature(inputs, labels))
                /\ UNCHANGED <<inp_cnts, tgt_cnts>>
    /\ idx' = idx + 1
    /\ UNCHANGED <<batched_data, t, num_batch, pc>>
    /\ UNCHANGED <<encArgs, xlArgs, xlVars, otherVars>>

\* line 254: the window is complete
EndWindow ==
    /\ pc = "for_idx" /\ idx = batch_size
    /\ num_batch' = num_batch + 1
    /\ t' = t + tgt_len
    /\ pc' = "for_t"
    /\ UNCHANGED <<batched_data, idx, inp_cnts, tgt_cnts, records>>
    /\ UNCHANGED <<encArgs, xlArgs, xlVars, otherVars>>

Next ==
    \/ NextWindow
    \/ DropRemainder
    \/ LoopEnd
    \/ AssertFail
    \/ ZeroDivision
    \/ WriteRecord
    \/ EndWindow

Spec == Init /\ [][Next]_vars

(***************************************************************************)
(* Reading the written records.  Record k (1-based) is row                 *)
(* (k - 1) % batch_size of window (k - 1) \div batch_size.                  *)
(***************************************************************************)
Prefixes == {"inp", "tgt"}

HasBuckets(f) == "inp_cnt" \in DOMAIN f

RowOf(k)    == (k - 1) % batch_size
WindowOf(k) == (k - 1) \div batch_size

TokensOf(f, prefix) == IF prefix = "inp" THEN f.inputs ELSE f.labels
CntOf(f, prefix, b) == IF prefix = "inp" THEN f.inp_cnt[b] ELSE f.tgt_cnt[b]
TupOf(f, prefix, b) == IF prefix = "inp" THEN f.inp_tup[b] ELSE f.tgt_tup[b]

\* the (position, slot) pairs of a flattened tuple feature
PairsOf(tup) == [i \in 1..(Len(tup) \div 2) |-> <<tup[2 * i - 1], tup[2 * i]>>]

PositionsOf(tup) == {PairsOf(tup)[i][1] : i \in 1..Len(PairsOf(tup))}
SlotSeqOf(tup)   == [i \in 1..Len(PairsOf(tup)) |-> PairsOf(tup)[i][2]]

\* the positions of x whose token lies in tail bucket b (b = 1 is bucket 0)
Matching(x, b) ==
    {p \in 0..(Len(x) - 1) : x[p + 1] >= cutoffs[b + 1] /\ x[p + 1] < cutoffs[b + 2]}

\* the n smallest elements of a set of positions
FirstOf(P, n) == {p \in P : Cardinality({q \in P : q < p}) < n}

TailBuckets == 1..Len(bin_sizes)

\* rows per core shard, and the first row of the shard of row r
PerCore       == batch_size \div num_core_per_host
ShardStart(r) == r - (r % PerCore)

\* the records of the rows of k's shard that precede k, in k's window
EarlierInShard(k) ==
    {j \in 1..(k - 1) : WindowOf(j) = WindowOf(k) /\ RowOf(j) >= ShardStart(RowOf(k))}

RECURSIVE SumCnt(_, _, _)
SumCnt(J, prefix, b) ==
    IF J = {} THEN 0
    ELSE LET j == CHOOSE x \in J : TRUE
         IN  CntOf(records[j], prefix, b) + SumCnt(J \ {j}, prefix, b)

UsedBefore(k, prefix, b) == SumCnt(EarlierInShard(k), prefix, b)

BucketRecords == {k \in 1..Len(records) : HasBuckets(records[k])}

\* C1 as stated: every example gets min(bin_sizes[b], matching positions)
\* tuples of every tail bucket, the first ones in position order.
C1_PerExampleCapacity ==
    \A k \in BucketRecords, prefix \in Prefixes, b \in TailBuckets :
        LET f == records[k]
            M == Matching(TokensOf(f, prefix), b)
        IN  /\ CntOf(f, prefix, b) = Min(bin_sizes[b], Cardinality(M))
            /\ PositionsOf(TupOf(f, prefix, b)) = FirstOf(M, CntOf(f, prefix, b))

\* C1 amended: an example gets min(bin_sizes[b] - c, matching positions)
\* tuples of tail bucket b, where c is the number of slots of b that the
\* earlier rows of the same core shard took in this window (0 for the first
\* row of a shard); the emitted positions are the first ones in position
\* order.
C1_ShardCapacity ==
    \A k \in BucketRecords, prefix \in Prefixes, b \in TailBuckets :
        LET f == records[k]
            M == Matching(TokensOf(f, prefix), b)
            c == UsedBefore(k, prefix, b)
        IN  /\ CntOf(f, prefix, b) = Min(bin_sizes[b] - c, Cardinality(M))
            /\ PositionsOf(TupOf(f, prefix, b)) = FirstOf(M, CntOf(f, prefix, b))

\* a row that is not the first of its shard loses matching positions to the
\* slots the earlier rows took, yet still gets at least one
C1_Witness ==
    \E k \in BucketRecords, b \in TailBuckets :
        LET f == records[k]
            M == Matching(f.labels, b)
        IN  /\ UsedBefore(k, "tgt", b) > 0
            /\ f.tgt_cnt[b] > 0
            /\ f.tgt_cnt[b] < Cardinality(M)
            /\ Cardinality(M) <= bin_sizes[b]

\* C2: in every record, for both prefixes and every tail bucket, the count
\* is at most bin_sizes[b], it is the number of emitted pairs, and every
\* emitted slot lies in 0..bin_sizes[b]-1.
C2_WithinCapacity ==
    \A k \in BucketRecords, prefix \in Prefixes, b \in TailBuckets :
        LET f   == records[k]
            tup == TupOf(f, prefix, b)
        IN  /\ CntOf(f, prefix, b) <= bin_sizes[b]
            /\ Len(tup) = 2 * CntOf(f, prefix, b)
            /\ \A i \in 1..Len(PairsOf(tup)) :
                  /\ PairsOf(tup)[i][2] >= 0
                  /\ PairsOf(tup)[i][2] < bin_sizes[b]

\* a record whose bucket is filled to capacity while a matching position of
\* the record is left out
C2_Witness ==
    \E k \in BucketRecords, prefix \in Prefixes, b \in TailBuckets :
        LET f == records[k]
        IN  /\ CntOf(f, prefix, b) = bin_sizes[b]
            /\ Cardinality(Matching(TokensOf(f, prefix), b)) > bin_sizes[b]

\* the slots of bucket b over the records lo..hi, in file order
RECURSIVE SlotsOver(_, _, _, _)
SlotsOver(lo, hi, prefix, b) ==
    IF lo > hi THEN <<>>
    ELSE SlotSeqOf(TupOf(records[lo], prefix, b)) \o SlotsOver(lo + 1, hi, prefix, b)

\* the last record written so far that belongs to the shard begun by record k
ShardEnd(k) == Min(Len(records), Min(k + PerCore - 1, k + (batch_size - 1 - RowOf(k))))

\* C3: within one window, over each block of batch_size // num_core_per_host
\* consecutive rows and for each tail bucket, the slots assigned are
\* 0, 1, .., n-1 in row-then-position order: the counters start at 0 at the
\* first row of the block and nothing is carried in from another shard or
\* window.
C3_SlotsPerShard ==
    \A k \in BucketRecords, prefix \in Prefixes, b \in TailBuckets :
        RowOf(k) % PerCore = 0 =>
            LET slots == SlotsOver(k, ShardEnd(k), prefix, b)
            IN  \A i \in 1..Len(slots) : slots[i] = i - 1

\* in a later window, a shard of two rows: the first row starts again at
\* slot 0 although the window before used the bucket, and the second row
\* continues at slot 1
C3_Witness ==
    \E k \in BucketRecords, b \in TailBuckets :
        /\ WindowOf(k) >= 1 /\ RowOf(k) % PerCore = 0
        /\ k + 1 <= Len(records) /\ ShardEnd(k) >= k + 1
        /\ records[k - 1].tgt_cnt[b] > 0
        /\ SlotSeqOf(records[k].tgt_tup[b]) = <<0>>
        /\ SlotSeqOf(records[k + 1].tgt_tup[b]) = <<1>>

\* C10 as stated: with one pass in static mode, the returned num_batch is
\* floor(N / B / L).
C10_WindowsFloorNBL ==
    (pc = "done" /\ use_tpu /\ num_passes <= 1) =>
        num_batch = (Len(data) \div batch_size) \div tgt_len

\* C10 amended: with one pass in static mode, the returned num_batch is
\* floor((floor(N / B) - 1) / L), and 0 when N < B: one token of every row is
\* held back as the label of the last input.
C10_WindowsHoldBackOne ==
    (pc = "done" /\ use_tpu /\ num_passes <= 1) =>
        num_batch = Max(0, ((Len(data) \div batch_size) - 1) \div tgt_len)

\* a finished static run whose row length is a multiple of tgt_len
C10_Witness ==
    /\ pc = "done" /\ use_tpu /\ num_passes <= 1
    /\ num_batch >= 1
    /\ (Len(data) \div batch_size) % tgt_len = 0

\* the batch row a record was cut from, and the start of its window
RowTokens(k)  == batched_data[RowOf(k) + 1]
WindowStart(k) == WindowOf(k) * tgt_len

\* C11: every record holds inputs = row[t : t+L'] and labels =
\* row[t+1 : t+L'+1] of the same length L' >= 1, every label is a token of
\* the row, and the last label of a window is the first input of the next
\* window of the row; in static mode L' = tgt_len and the shorter trailing
\* window is dropped, in dynamic mode the windows written cover every input
\* of the row, the shorter trailing window included.
C11_WindowsShiftByOne ==
    /\ \A k \in 1..Len(records) :
          LET f   == records[k]
              row == RowTokens(k)
              tt  == WindowStart(k)
              Lp  == Len(f.inputs)
          IN  /\ Lp >= 1 /\ Lp <= tgt_len
              /\ Len(f.labels) = Lp
              /\ tt + Lp + 1 <= Len(row)
              /\ \A p \in 1..Lp : /\ f.inputs[p] = row[tt + p]
                                  /\ f.labels[p] = row[tt + p + 1]
              /\ use_tpu => Lp = tgt_len
              /\ k + batch_size <= Len(records) =>
                    /\ Lp = tgt_len
                    /\ f.labels[Lp] = records[k + batch_size].inputs[1]
    /\ pc = "done" =>
          LET S == num_step_of(batched_data)
          IN  /\ Len(records) = num_batch * batch_size
              /\ use_tpu => num_batch = Max(0, (S - 1) \div tgt_len)
              /\ ~use_tpu =>
                    /\ num_batch * tgt_len >= S - 1
                    /\ \A k \in 1..Len(records) :
                          WindowStart(k) + Len(records[k].inputs) =
                              Min(WindowStart(k) + tgt_len, S - 1)

\* a finished dynamic run whose trailing window, shorter than tgt_len, was
\* written for every row
C11_Witness ==
    /\ pc = "done" /\ ~use_tpu /\ num_batch >= 1
    /\ Len(records) = num_batch * batch_size
    /\ Len(records[Len(records)].inputs) < tgt_len

\* the cyclic rotation of data that begins at offset start
Rotation(start) ==
    [i \in 1..Len(data) |-> data[((start + i - 1) % Len(data)) + 1]]

\* the rows of a flat sequence cut to batch_size rows of equal length
RowsOf(flat) ==
    [r \in 1..batch_size |->
        [c \in 1..(Len(flat) \div batch_size) |->
            flat[(r - 1) * (Len(flat) \div batch_size) + c]]]

\* C21: with num_passes > 1 on n >= 1 tokens, what batchify reshapes is the
\* concatenation of num_passes cyclic rotations of data, each beginning at
\* some start in [0, n), of length num_passes * n; with num_passes <= 1 it
\* is data unchanged.
C21_PassesAreRotations ==
    /\ (num_passes > 1 /\ Len(data) >= 1) =>
          \E starts \in [1..num_passes -> 0..(Len(data) - 1)] :
              LET flat == Concat([i \in 1..num_passes |-> Rotation(starts[i])])
              IN  /\ Len(flat) = num_passes * Len(data)
                  /\ batched_data = RowsOf(flat)
    /\ num_passes <= 1 => batched_data = RowsOf(data)

\* two passes over three tokens in one row, the second one wrapping around
C21_Witness ==
    /\ num_passes = 2 /\ batch_size = 1 /\ Len(data) = 3
    /\ data[1] # data[2]
    /\ batched_data[1] = Rotation(0) \o Rotation(2)
    /\ pc = "done"

\* C28: in every record, for both prefixes and every tail bucket, the
\* flattened tuple feature has 2 * cnt entries; from one pair to the next
\* the position grows and the slot grows by one; every position is a
\* position of the record's window, and every pair is an index of a
\* [tgt_len, bin_sizes[b]] matrix.
C28_TuplesSortedInRange ==
    \A k \in BucketRecords, prefix \in Prefixes, b \in TailBuckets :
        LET f     == records[k]
            tup   == TupOf(f, prefix, b)
            pairs == PairsOf(tup)
        IN  /\ Len(tup) = 2 * CntOf(f, prefix, b)
            /\ \A i \in 1..Len(pairs) :
                  /\ pairs[i][1] >= 0
                  /\ pairs[i][1] < Len(TokensOf(f, prefix))
                  /\ pairs[i][1] < tgt_len
                  /\ pairs[i][2] >= 0
                  /\ pairs[i][2] < bin_sizes[b]
            /\ \A i \in 1..(Len(pairs) - 1) :
                  /\ pairs[i][1] < pairs[i + 1][1]
                  /\ pairs[i + 1][2] = pairs[i][2] + 1

\* a record with two pairs of one bucket, and a record whose first slot is
\* not slot 0
C28_Witness ==
    /\ \E k \in BucketRecords, b \in TailBuckets : records[k].tgt_cnt[b] >= 2
    /\ \E k \in BucketRecords, b \in TailBuckets :
          /\ records[k].inp_cnt[b] >= 1
          /\ records[k].inp_tup[b][2] >= 1

\* C14 as stated: whenever len(cutoffs) - len(bin_sizes) != 2 the call fails
\* and writes no record, in either mode, with or without cutoffs, whatever
\* the number of windows.
C14_MismatchAlwaysFails ==
    ~bins_valid(cutoffs, bin_sizes) => (records = <<>> /\ pc # "done")

\* C14 amended: the call fails on a mismatch exactly in static mode with
\* non-empty cutoffs and at least one full window, at the first row of the
\* first window and before any record is written; in dynamic mode, with empty
\* cutoffs or without a full window a mismatch never fails the call, which
\* ends normally.
C14_MismatchFailsStaticFirstRecord ==
    LET mismatch == ~bins_valid(cutoffs, bin_sizes)
        checked  == use_tpu /\ Len(cutoffs) > 0
        windows  == (num_step_of(batched_data) - 1) \div tgt_len
    IN  /\ pc = "AssertionError" =>
              /\ mismatch /\ checked /\ windows >= 1
              /\ records = <<>> /\ num_batch = 0 /\ t = 0 /\ idx = 0
        /\ (mismatch /\ checked) =>
              /\ records = <<>>
              /\ pc = "for_idx" => (t = 0 /\ idx = 0)
              /\ pc = "done" => windows < 1
        /\ (mismatch /\ ~checked /\ pc = "done") =>
              Len(records) = num_batch * batch_size

\* a static call with cutoffs and too few bin sizes has failed
C14_Witness ==
    /\ pc = "AssertionError" /\ records = <<>>
    /\ Len(cutoffs) - Len(bin_sizes) > 2

StrictlyIncreasing(cs) == \A i \in 1..(Len(cs) - 1) : cs[i] < cs[i + 1]

\* C15: with cutoffs that are not strictly increasing the call aborts before
\* any record is written.
C15_NonMonotonicAborts ==
    ~StrictlyIncreasing(cutoffs) => (records = <<>> /\ pc # "done")

(***************************************************************************)
(* get_bin_sizes (data_utils_chinese.py 102-129), one step for line 124    *)
(* and one for lines 125-126 of every tail bucket.  The arguments are      *)
(* data, batch_size (per core), tgt_len and cutoffs; bin_sizes is the list *)
(* that is returned.                                                       *)
(***************************************************************************)
\* the default of the parameter std_mult (line 102), 2.5 as <<5, 2>>
std_mult == <<<<5, 2>>, <<5, 2>>, <<5, 2>>>>

\* variant: always rounded down
nearest_to_eight_floor(x) == Max(8, x - (x % 8))

\* lines 108-110
nearest_to_eight(x) ==
    LET y == x - (x % 8)
    IN  IF x % 8 >= 4 THEN y + 8 ELSE Max(8, y)

\* line 113
windows_of(d, bsz, L) == (Len(d) \div bsz) \div L

\* lines 115-116, 119-120: entry j of mask.sum(2).sum(0), the number of
\* tokens of [left, right) in window j (0-based) of the
\* [batch_size, num_batch, tgt_len] grid
window_count(d, bsz, L, j, left, right) ==
    LET nb == windows_of(d, bsz, L)
    IN  Cardinality({<<i, p>> \in (0..(bsz - 1)) \X (0..(L - 1)) :
            LET x == d[i * nb * L + j * L + p + 1]
            IN  x >= left /\ x < right})

RECURSIVE sum_upto(_, _)
sum_upto(f, n) == IF n = 0 THEN 0 ELSE f[n] + sum_upto(f, n - 1)

\* lines 120-124: ceil(tgt_len * batch_size * (mean + std_mult[b] * std)) for
\* num_batch >= 1.  With c the window counts, n their number and
\* std_mult[b] = m[1] / m[2], the product is
\* (m[2] * sum(c) + m[1] * sqrt(n * sum(c^2) - sum(c)^2)) / (m[2] * n); its
\* ceiling is the least z whose distance to the mean covers the deviation.
\* The source computes in float64, whose rounding can move a product that
\* is an exact integer to the next one.
ceil_capacity(d, bsz, L, left, right, m) ==
    LET n   == windows_of(d, bsz, L)
        c   == [j \in 1..n |-> window_count(d, bsz, L, j - 1, left, right)]
        sq  == [j \in 1..n |-> c[j] * c[j]]
        sm  == sum_upto(c, n)
        dev == n * sum_upto(sq, n) - sm * sm
        covers(z) == /\ m[2] * n * z >= m[2] * sm
                     /\ (m[2] * n * z - m[2] * sm) * (m[2] * n * z - m[2] * sm)
                            >= m[1] * m[1] * dev
    IN  CHOOSE z \in 0..(bsz * L * (m[1] + m[2])) :
            covers(z) /\ \A w \in 0..(z - 1) : ~covers(w)

\* the arguments of one call, everything else at rest
BinArgs(d, bsz, L, cs) ==
    /\ data = d /\ batch_size = bsz /\ tgt_len = L /\ cutoffs = cs
    /\ num_core_per_host = 1 /\ num_passes = 1 /\ use_tpu = FALSE

BinCutoffChoices ==
    {<<>>, <<0, 3>>, <<0, 1, 3>>, <<0, 1, 2, 3>>, <<0, 2, 1, 3>>,
     <<0, 1, 2, 3, 4, 5>>}

\* any short token sequence
BinCall ==
    \E n \in 0..MaxBinN :
      \E d \in [1..n -> Tokens], bsz \in 1..2, L \in 1..2,
         cs \in BinCutoffChoices :
         BinArgs(d, bsz, L, cs)

\* one window in which x tokens belong to the one tail bucket
UniformCall ==
    \E L \in 1..MaxBinSize, x \in 0..MaxBinSize :
        /\ x <= L
        /\ BinArgs([i \in 1..L |-> IF i <= x THEN 1 ELSE 0], 1, L, <<0, 1, 2>>)

InitBins ==
    /\ BinCall \/ UniformCall
    \* line 106
    /\ bin_sizes = <<>>
    /\ cur_b = 0 /\ cur_bin_size = 0
    /\ pc = "for_b"
    /\ batched_data = <<>> /\ t = 0 /\ idx = 0 /\ inp_cnts = <<>>
    /\ tgt_cnts = <<>> /\ num_batch = 0 /\ records = <<>>
    /\ XLIdle /\ NameIdle /\ HostIdle /\ LossIdle /\ FeedIdle

binFrame == <<data, batch_size, tgt_len, num_core_per_host, cutoffs,
              num_passes, use_tpu, batched_data, t, idx, inp_cnts, tgt_cnts,
              num_batch, records, xlArgs, xlVars, nameVars, hostVars,
              lossVars, feedVars>>

\* line 124: std_mult has no entry for this bucket
BinIndexError ==
    /\ pc = "for_b" /\ cur_b < Len(tail_buckets(cutoffs))
    /\ cur_b >= Len(std_mult)
    /\ pc' = "IndexError"
    /\ UNCHANGED <<bin_sizes, binVars, binFrame>>

\* lines 120-124: no window, mean and std are nan and math.ceil raises
BinValueError ==
    /\ pc = "for_b" /\ cur_b < Len(tail_buckets(cutoffs))
    /\ cur_b < Len(std_mult)
    /\ windows_of(data, batch_size, tgt_len) = 0
    /\ pc' = "ValueError"
    /\ UNCHANGED <<bin_sizes, binVars, binFrame>>

\* lines 117-124
CeilBinSize ==
    /\ pc = "for_b" /\ cur_b < Len(tail_buckets(cutoffs))
    /\ cur_b < Len(std_mult)
    /\ windows_of(data, batch_size, tgt_len) > 0
    /\ cur_bin_size' = ceil_capacity(data, batch_size, tgt_len,
                                 tail_buckets(cutoffs)[cur_b + 1][1],
                                 tail_buckets(cutoffs)[cur_b + 1][2],
                                 std_mult[cur_b + 1])
    /\ pc' = "round"
    /\ UNCHANGED <<bin_sizes, cur_b, binFrame>>

\* lines 125-126
RoundBinSize ==
    /\ pc = "round"
    /\ cur_bin_size' = nearest_to_eight(cur_bin_size)
    /\ bin_sizes' = Append(bin_sizes, cur_bin_size')
    /\ cur_b' = cur_b + 1
    /\ pc' = "for_b"
    /\ UNCHANGED binFrame

\* lines 112, 117, 129: no cutoffs, or no tail bucket left
BinReturn ==
    /\ pc = "for_b" /\ cur_b >= Len(tail_buckets(cutoffs))
    /\ pc' = "return"
    /\ UNCHANGED <<bin_sizes, binVars, binFrame>>

NextBins ==
    \/ BinIndexError
    \/ BinValueError
    \/ CeilBinSize
    \/ RoundBinSize
    \/ BinReturn

SpecBins == InitBins /\ [][NextBins]_vars

\* C12: _nearest_to_eight(x) is a multiple of 8 that is at least 8: x rounded
\* down to a multiple of 8 when x % 8 < 4, but never below 8, and rounded up
\* when x % 8 >= 4; 12 gives 16, 8 gives 8, 3 gives 8 and 20 gives 24.
C12_NearestToEight ==
    [][(pc = "round" /\ pc' = "for_b") =>
        LET x == cur_bin_size
            y == cur_bin_size'
        IN  /\ x >= 0
            /\ y % 8 = 0 /\ y >= 8
            /\ x % 8 < 4 => y = Max(8, 8 * (x \div 8))
            /\ x % 8 >= 4 => y = 8 * (x \div 8) + 8
            /\ x = 12 => y = 16
            /\ x = 8 => y = 8
            /\ x = 3 => y = 8
            /\ x = 20 => y = 24]_vars

\* a window of 20 tokens, all of the tail bucket, was given the capacity 24
C12_Witness ==
    /\ pc = "for_b" /\ cur_b = 1
    /\ Len(data) = 20 /\ tgt_len = 20 /\ \A i \in 1..20 : data[i] = 1
    /\ cur_bin_size = 24 /\ bin_sizes = <<24>>

\* C13: for every cutoffs of at least one bucket and data of at least one
\* window, get_bin_sizes returns len(cutoffs) - 2 bin sizes, one per tail
\* bucket, each a multiple of 8 and at least 8.
C13_OnePerTailBucket ==
    (/\ pc \notin {"for_b", "round"}
     /\ Len(cutoffs) >= 2
     /\ windows_of(data, batch_size, tgt_len) >= 1) =>
        /\ pc = "return"
        /\ Len(bin_sizes) = Len(cutoffs) - 2
        /\ \A i \in 1..Len(bin_sizes) : bin_sizes[i] % 8 = 0 /\ bin_sizes[i] >= 8

(***************************************************************************)
(* The manifest name (data_utils_chinese.py 65-79, 319-332).  A string is  *)
(* a sequence of pieces: the literal parts of the format string, the       *)
(* split, and the decimal digits of the numbers.                           *)
(***************************************************************************)
Digits == <<"0", "1", "2", "3", "4", "5", "6", "7", "8", "9">>

\* "{}".format(n) of an integer n >= 0
RECURSIVE decimal(_)
decimal(n) ==
    IF n < 10 THEN <<Digits[n + 1]>>
    ELSE Append(decimal(n \div 10), Digits[(n % 10) + 1])

\* lines 73-78 and 321-326
record_name(sp, bsz, L, cores, tpu) ==
    IF tpu
    THEN <<"record_info-", sp, ".bsz-">> \o decimal(bsz) \o <<".tlen-">>
             \o decimal(L) \o <<".core-">> \o decimal(cores) \o <<".json">>
    ELSE <<"record_info-", sp, ".bsz-">> \o decimal(bsz) \o <<".tlen-">>
             \o decimal(L) \o <<".json">>

\* line 71
producer_use_tpu(flag, sp, cores) == flag /\ ~(sp = "test" /\ cores = 1)

Splits == {"train", "valid", "test"}

\* one configuration, shared by the producer and the consumer
InitName ==
    /\ \E sp \in Splits, bsz \in 1..MaxNameBsz, L \in 1..MaxTgtLen,
          cores \in CoreChoices, flag \in BOOLEAN :
          /\ split = sp /\ batch_size = bsz /\ tgt_len = L
          /\ num_core_per_host = cores /\ flags_use_tpu = flag
    /\ save_dir = {} /\ record_info_path = <<>>
    /\ use_tpu = FALSE
    /\ pc = "convert_to_tfrecords"
    /\ data = <<>> /\ cutoffs = <<>> /\ bin_sizes = <<>> /\ num_passes = 1
    /\ batched_data = <<>> /\ t = 0 /\ idx = 0 /\ inp_cnts = <<>>
    /\ tgt_cnts = <<>> /\ num_batch = 0 /\ records = <<>>
    /\ XLIdle /\ BinIdle /\ HostIdle /\ LossIdle /\ FeedIdle

nameFrame == <<data, batch_size, tgt_len, num_core_per_host, cutoffs,
               bin_sizes, num_passes, batched_data, t, idx, inp_cnts,
               tgt_cnts, num_batch, records, xlArgs, xlVars, binVars,
               hostVars, lossVars, feedVars, split, flags_use_tpu>>

\* lines 65-95: the producer writes the manifest
ConvertToTfrecords ==
    /\ pc = "convert_to_tfrecords"
    /\ use_tpu' = producer_use_tpu(flags_use_tpu, split, num_core_per_host)
    /\ save_dir' = save_dir \cup
           {record_name(split, batch_size, tgt_len, num_core_per_host, use_tpu')}
    /\ pc' = "load_record_info"
    /\ UNCHANGED <<record_info_path, nameFrame>>

\* lines 319-332: the consumer opens the manifest
LoadRecordInfo ==
    /\ pc = "load_record_info"
    /\ record_info_path' = record_name(split, batch_size, tgt_len,
                                       num_core_per_host, flags_use_tpu)
    /\ pc' = IF record_info_path' \in save_dir THEN "loaded"
             ELSE "FileNotFoundError"
    /\ UNCHANGED <<use_tpu, save_dir, nameFrame>>

NextName ==
    \/ ConvertToTfrecords
    \/ LoadRecordInfo

SpecName == InitName /\ [][NextName]_vars

\* C20: for every split, per-host batch size, window length, core count and
\* static-mode flag, the manifest path load_record_info computes is the path
\* convert_to_tfrecords wrote for the same values.
C20_ManifestRoundTrip ==
    pc \in {"loaded", "FileNotFoundError"} =>
        /\ record_info_path \in save_dir
        /\ pc = "loaded"

(***************************************************************************)
(* get_input_fn.input_fn (data_utils_chinese.py 375-459), called once on   *)
(* every host.  A record is <<file, index>>, both 0-based.                 *)
(***************************************************************************)
file_records(f) == [i \in 1..file_lens[f + 1] |-> <<f, i - 1>>]

\* TFRecordDataset over the files in the given order
records_in(order) == Concat([k \in 1..Len(order) |-> file_records(order[k])])

\* variant: the cores are left out of the start
my_start_sample_id_per_core(h, W, C, P) == h * W * P

\* lines 446-447
my_start_sample_id(h, W, C, P) == h * W * C * P

\* line 448
my_sample_num(W, C, P) == W * C * P

\* dataset.skip(start).take(num)
skip_take(rs, start, num) == Slice(rs, Min(start, Len(rs)), start + num)

\* dataset.batch(n, drop_remainder=True) of a finite dataset, flattened
drop_remainder(rs, n) == Slice(rs, 0, (Len(rs) \div n) * n)

Hosts == 0..(num_hosts - 1)

InitHost ==
    /\ \E sp \in {"train", "valid"}, H \in 1..MaxHosts, bsz \in 1..MaxBsz,
          cores \in CoreChoices, nb \in 0..MaxNumBatch :
          /\ cores <= bsz
          /\ split = sp /\ num_hosts = H /\ batch_size = bsz
          /\ num_core_per_host = cores /\ num_batch = nb
          \* lines 84, 376: the per-core batch size
          /\ per_core_bsz = bsz \div cores
          \* one data file, or the windows spread over two
          /\ \/ file_lens = <<nb * bsz>>
             \/ \E k \in 0..nb : file_lens = <<k * bsz, (nb - k) * bsz>>
          /\ host_reads = [h \in 1..H |-> None]
    /\ pc = "input_fn"
    /\ flags_use_tpu = FALSE /\ save_dir = {} /\ record_info_path = <<>>
    /\ data = <<>> /\ tgt_len = 1 /\ cutoffs = <<>> /\ bin_sizes = <<>>
    /\ num_passes = 1 /\ use_tpu = FALSE
    /\ batched_data = <<>> /\ t = 0 /\ idx = 0 /\ inp_cnts = <<>>
    /\ tgt_cnts = <<>> /\ records = <<>>
    /\ XLIdle /\ BinIdle /\ LossIdle /\ FeedIdle

hostFrame == <<encArgs, encVars, xlArgs, xlVars, binVars, nameVars, lossVars,
               feedVars, num_hosts, file_lens, per_core_bsz>>

Reads(h, rs) ==
    /\ pc = "input_fn"
    /\ h \in Hosts /\ host_reads[h + 1] = None
    /\ host_reads' = [host_reads EXCEPT ![h + 1] = Some(rs)]
    /\ UNCHANGED hostFrame

\* lines 440-442: several files, shuffled
ReadShuffledFiles(h) ==
    /\ split = "train" /\ Len(file_lens) > 1
    /\ \E order \in Permutations(0..(Len(file_lens) - 1)) :
          Reads(h, records_in([k \in 1..Len(file_lens) |-> order[k - 1]]))

\* lines 443-451: one file, several hosts
ReadHostRange(h) ==
    /\ split = "train" /\ Len(file_lens) <= 1 /\ num_hosts > 1
    /\ LET W == num_batch \div num_hosts
       IN  Reads(h, skip_take(records_in(<<0>>),
                     my_start_sample_id(h, W, num_core_per_host, per_core_bsz),
                     my_sample_num(W, num_core_per_host, per_core_bsz)))

\* lines 452-453: one file, one host
ReadWholeFile(h) ==
    /\ split = "train" /\ Len(file_lens) <= 1 /\ num_hosts <= 1
    /\ Reads(h, records_in(<<0>>))

\* lines 458-463: evaluation
ReadEval(h) ==
    /\ split # "train"
    /\ Reads(h, drop_remainder(
                    records_in([k \in 1..Len(file_lens) |-> k - 1]),
                    per_core_bsz))

NextHost ==
    \/ \E h \in Hosts : ReadShuffledFiles(h)
    \/ \E h \in Hosts : ReadHostRange(h)
    \/ \E h \in Hosts : ReadWholeFile(h)
    \/ \E h \in Hosts : ReadEval(h)

SpecHost == InitHost /\ [][NextHost]_vars

\* the hosts whose input_fn has run, and the records a host reads
Called == {h \in Hosts : host_reads[h + 1] # None}
ReadSet(h) == {host_reads[h + 1].val[i] : i \in 1..Len(host_reads[h + 1].val)}

\* the range of host h by the static formula, W = num_batch // num_hosts
RangeStart(h) ==
    h * (num_batch \div num_hosts) * num_core_per_host * per_core_bsz
RangeEnd(h) == RangeStart(h + 1)

TotalRecords == sum_upto(file_lens, Len(file_lens))

\* C19 as stated: in training with several hosts, whatever the number of
\* data files, host h reads the records [h*W*C*P, (h+1)*W*C*P), a range
\* that starts on a window boundary and lies inside the file, and no record
\* is read by two hosts.
C19_HostRangesAnyFiles ==
    (split = "train" /\ num_hosts > 1) =>
        /\ \A h \in Called :
              /\ Cardinality(ReadSet(h)) = RangeEnd(h) - RangeStart(h)
              /\ RangeStart(h) % batch_size = 0
              /\ RangeEnd(h) <= TotalRecords
        /\ \A h1, h2 \in Called : h1 # h2 => ReadSet(h1) \cap ReadSet(h2) = {}

\* C19 amended: in training with several hosts and one data file, host h
\* reads exactly the records [h*W*C*P, (h+1)*W*C*P) of the file in order;
\* the ranges lie inside the file and no record is read by two hosts; the
\* ranges start on a window boundary when the per-host batch size is C*P.
\* With several data files every host reads every record of every file.
C19_HostRangesOneFile ==
    (split = "train" /\ num_hosts > 1) =>
        /\ Len(file_lens) = 1 =>
              /\ \A h \in Called :
                    /\ host_reads[h + 1].val =
                          [i \in 1..(RangeEnd(h) - RangeStart(h)) |->
                              <<0, RangeStart(h) + i - 1>>]
                    /\ RangeEnd(h) <= file_lens[1]
                    /\ num_core_per_host * per_core_bsz = batch_size =>
                          RangeStart(h) % batch_size = 0
              /\ \A h1, h2 \in Called :
                    h1 # h2 => ReadSet(h1) \cap ReadSet(h2) = {}
        /\ Len(file_lens) > 1 =>
              \A h \in Called :
                  ReadSet(h) = {<<f, i>> \in (0..(Len(file_lens) - 1)) \X
                                             (0..TotalRecords) :
                                    i < file_lens[f + 1]}

\* two hosts have read their ranges of one file, each at least one window
C19_Witness ==
    /\ split = "train" /\ num_hosts > 1 /\ Len(file_lens) = 1
    /\ {0, 1} \subseteq Called
    /\ num_batch \div num_hosts >= 1
    /\ ReadSet(0) # {} /\ ReadSet(1) # {}

(***************************************************************************)
(* tf/model.py.  A matrix is a sequence of rows.  Entry [i][j] of the      *)
(* source is m[i + 1][j + 1] here.                                         *)
(***************************************************************************)
ones(r, c)  == [i \in 1..r |-> [j \in 1..c |-> 1]]
zeros(r, c) == [i \in 1..r |-> [j \in 1..c |-> 0]]

\* tf.matrix_band_part(m, num_lower, num_upper); a negative bound keeps the
\* whole triangle
matrix_band_part(m, num_lower, num_upper) ==
    [i \in 1..Len(m) |-> [j \in 1..Len(m[i]) |->
        IF /\ (num_lower < 0 \/ i - j <= num_lower)
           /\ (num_upper < 0 \/ j - i <= num_upper)
        THEN m[i][j] ELSE 0]]

\* tf.concat([a, b], 1)
concat_cols(a, b) == [i \in 1..Len(a) |-> a[i] \o b[i]]

mat_add(a, b) == [i \in 1..Len(a) |-> [j \in 1..Len(a[i]) |-> a[i][j] + b[i][j]]]
mat_sub(a, b) == [i \in 1..Len(a) |-> [j \in 1..Len(a[i]) |-> a[i][j] - b[i][j]]]

\* m[:, :n] and m[:, n:]
cols_to(m, n)   == [i \in 1..Len(m) |-> Slice(m[i], 0, n)]
cols_from(m, n) == [i \in 1..Len(m) |-> Slice(m[i], n, Len(m[i]))]

\* variant: the diagonal is not taken out of the lower triangle
create_mask_keep_dia(qlen, mlen, same_len) ==
    LET attn_mask_1   == ones(qlen, qlen)
        mask_u        == matrix_band_part(attn_mask_1, 0, -1)
        mask_dia      == matrix_band_part(attn_mask_1, 0, 0)
        attn_mask_pad == zeros(qlen, mlen)
        ret           == concat_cols(attn_mask_pad, mat_sub(mask_u, mask_dia))
        mask_l        == matrix_band_part(attn_mask_1, -1, 0)
    IN  IF same_len
        THEN concat_cols(mat_add(cols_to(ret, qlen), mask_l), cols_from(ret, qlen))
        ELSE ret

\* variant: the diagonal is not taken out of the upper triangle
create_mask_upper_dia(qlen, mlen, same_len) ==
    LET attn_mask_1   == ones(qlen, qlen)
        mask_u        == matrix_band_part(attn_mask_1, 0, -1)
        mask_dia      == matrix_band_part(attn_mask_1, 0, 0)
        attn_mask_pad == zeros(qlen, mlen)
        ret           == concat_cols(attn_mask_pad, mask_u)
        mask_l        == matrix_band_part(attn_mask_1, -1, 0)
    IN  IF same_len
        THEN concat_cols(mat_sub(mat_add(cols_to(ret, qlen), mask_l), mask_dia),
                         cols_from(ret, qlen))
        ELSE ret

\* variant: the first superdiagonal is taken out with the diagonal
create_mask_wide_dia(qlen, mlen, same_len) ==
    LET attn_mask_1   == ones(qlen, qlen)
        mask_u        == matrix_band_part(attn_mask_1, 0, -1)
        mask_dia      == matrix_band_part(attn_mask_1, 0, 0)
        attn_mask_pad == zeros(qlen, mlen)
        ret           == concat_cols(attn_mask_pad,
                             mat_sub(mask_u, matrix_band_part(attn_mask_1, 0, 1)))
        mask_l        == matrix_band_part(attn_mask_1, -1, 0)
    IN  IF same_len
        THEN concat_cols(mat_sub(mat_add(cols_to(ret, qlen), mask_l), mask_dia),
                         cols_from(ret, qlen))
        ELSE ret

\* _create_mask (model.py 419-428)
create_mask(qlen, mlen, same_len) ==
    LET attn_mask_1   == ones(qlen, qlen)
        mask_u        == matrix_band_part(attn_mask_1, 0, -1)
        mask_dia      == matrix_band_part(attn_mask_1, 0, 0)
        attn_mask_pad == zeros(qlen, mlen)
        ret           == concat_cols(attn_mask_pad, mat_sub(mask_u, mask_dia))
        mask_l        == matrix_band_part(attn_mask_1, -1, 0)
    IN  IF same_len
        THEN concat_cols(mat_sub(mat_add(cols_to(ret, qlen), mask_l), mask_dia),
                         cols_from(ret, qlen))
        ELSE ret

(***************************************************************************)
(* rel_shift (model.py 33-41) on the two leading axes; the batch and head  *)
(* axes trail and are carried along by every step.                         *)
(***************************************************************************)
Pad == <<-1, -1>>

\* tf.pad(x, [[0, 0], [1, 0], ...]): one padding column in front
pad_front(x) == [i \in 1..Len(x) |-> <<Pad>> \o x[i]]

\* tf.reshape(x, [rows, cols, ...]): row-major
reshape(x, rows, cols) ==
    LET width   == Len(x[1])
        flat(k) == x[((k - 1) \div width) + 1][((k - 1) % width) + 1]
    IN  [r \in 1..rows |-> [c \in 1..cols |-> flat((r - 1) * cols + c)]]

\* tf.slice(x, [1, 0, ...], [-1, -1, ...]): all rows but the first
slice_rows(x) == Tail(x)

\* variant: the padded column is cut off again without the two reshapes
rel_shift_no_reshape(x) == [i \in 1..Len(x) |-> Tail(pad_front(x)[i])]

rel_shift(x) ==
    LET x_size0 == Len(x)
        x_size1 == Len(x[1])
        padded  == pad_front(x)
        turned  == reshape(padded, x_size1 + 1, x_size0)
        sliced  == slice_rows(turned)
    IN  reshape(sliced, x_size0, x_size1)

(***************************************************************************)
(* _cache_mem (model.py 431-439).  stop_gradient does not change values.   *)
(***************************************************************************)
\* x[-n:] for n > 0
last_n(x, n) == SubSeq(x, Max(1, Len(x) - n + 1), Len(x))

\* variant: one state more than mem_len is kept
cache_mem_keep_one_more(curr_out, prev_mem, mlen) ==
    IF mlen = NoneLen \/ prev_mem = None THEN curr_out
    ELSE IF mlen = 0 THEN prev_mem.val
    ELSE last_n(prev_mem.val \o curr_out, mlen + 1)

cache_mem(curr_out, prev_mem, mlen) ==
    IF mlen = NoneLen \/ prev_mem = None THEN curr_out
    ELSE IF mlen = 0 THEN prev_mem.val
    ELSE last_n(prev_mem.val \o curr_out, mlen)

(***************************************************************************)
(* transformer (model.py 442-556): what one forward pass computes from     *)
(* the shapes.  A hidden state is named <<layer, pass, position>>: layer 0 *)
(* is the embedding of the segment, layer i the output of layer i.         *)
(***************************************************************************)
hidden(layer, s, qlen) == [p \in 1..qlen |-> <<layer, s, p - 1>>]

\* line 474
mlen_of(ms) == IF ms # None THEN Len(ms.val[1]) ELSE 0

\* lines 497-499
pos_seq_of(klen, clamp) ==
    [j \in 1..klen |-> IF clamp > 0 THEN Min(klen - j, clamp) ELSE klen - j]

\* line 79: entry [i][j] of BD is computed from query i and table row j
BD_of(qlen, klen) == [i \in 1..qlen |-> [j \in 1..klen |-> <<i - 1, j - 1>>]]

\* lines 506-507: mems[i], with mems = [None] * n_layer when mems is None
layer_mem(ms, i) == IF ms = None THEN None ELSE Some(ms.val[i])

\* variant: the output of a layer is cached instead of its input
new_mems_of_outputs(ms, s, qlen, layers, mlen) ==
    [i \in 1..layers |-> cache_mem(hidden(i, s, qlen), layer_mem(ms, i), mlen)]

\* lines 509-511: the new memory of every layer
new_mems_of(ms, s, qlen, layers, mlen) ==
    [i \in 1..layers |-> cache_mem(hidden(i - 1, s, qlen), layer_mem(ms, i), mlen)]

MemLens == {NoneLen} \cup 0..MaxMemLen
ClampChoices == {-1, 2}

EncIdle ==
    /\ data = <<>> /\ batch_size = 1 /\ tgt_len = 1 /\ num_core_per_host = 1
    /\ cutoffs = <<>> /\ bin_sizes = <<>> /\ num_passes = 1 /\ use_tpu = FALSE
    /\ batched_data = <<>> /\ t = 0 /\ idx = 0 /\ inp_cnts = <<>>
    /\ tgt_cnts = <<>> /\ num_batch = 0 /\ records = <<>> /\ pc = "idle"

\* Before the first pass: no memory, or a memory of at most mem_len earlier
\* states per layer (named as states of pass 0)
InitXL ==
    /\ EncIdle /\ OtherIdle
    /\ n_layer = NLayer
    /\ mem_len \in MemLens
    /\ same_length \in BOOLEAN
    /\ clamp_len \in ClampChoices
    /\ \/ mems = None
       \/ \E m \in 0..(IF mem_len = NoneLen THEN MaxMemLen ELSE mem_len) :
            mems = Some([i \in 1..n_layer |-> hidden(i - 1, 0, m)])
    /\ old_mems = None /\ dec_inp = <<>>
    /\ attn_mask = <<>> /\ pos_seq = <<>> /\ BD = <<>> /\ step = 0

\* one forward pass over a segment of qlen tokens; the caller feeds the
\* returned memories to the next pass
Transformer(qlen) ==
    /\ step < MaxStep
    /\ LET mlen == mlen_of(mems)
           klen == mlen + qlen
       IN  /\ attn_mask' = create_mask(qlen, mlen, same_length)
           /\ pos_seq' = pos_seq_of(klen, clamp_len)
           /\ BD' = rel_shift(BD_of(qlen, klen))
    /\ dec_inp' = hidden(0, step + 1, qlen)
    /\ old_mems' = mems
    /\ mems' = Some(new_mems_of(mems, step + 1, qlen, n_layer, mem_len))
    /\ step' = step + 1
    /\ UNCHANGED <<encArgs, encVars, xlArgs, otherVars>>

NextXL == \E qlen \in 1..MaxQlen : Transformer(qlen)

SpecXL == InitXL /\ [][NextXL]_vars

(***************************************************************************)
(* The last forward pass, read back from the state.                        *)
(***************************************************************************)
LastQlen == Len(dec_inp)
LastMlen == mlen_of(old_mems)
LastKlen == LastMlen + LastQlen
Layers   == 1..n_layer

\* what layer i of the last pass received as input, and its old memory
LastInput(i)  == hidden(i - 1, step, LastQlen)
LastOldMem(i) == layer_mem(old_mems, i)

\* C4 as stated: after every pass, whatever the initial memory (None
\* included) and the segment length, every layer's memory holds at most
\* mem_len states.
C4_MemWithinMemLen ==
    (step >= 1 /\ mem_len # NoneLen) =>
        \A i \in Layers : Len(mems.val[i]) <= mem_len

C6_ZeroMemLenUnchanged ==
    (step >= 1 /\ mem_len = 0) =>
        \A i \in Layers : Some(mems.val[i]) = LastOldMem(i)

\* the position-table row that entry [i][j] of the shifted BD was computed
\* from (-1 for the padding)
TableRow(i, j) == BD[i + 1][j + 1][2]
QueryRow(i, j) == BD[i + 1][j + 1][1]

\* C7: where the position term of BD depends on the table row alone, every
\* entry [i][j] of rel_shift(BD) depends only on i - j: entries with equal
\* i - j come from the same table row.
C7_ShiftRelative ==
    step >= 1 =>
        \A i1, i2 \in 0..(LastQlen - 1), j1 \in 0..(LastKlen - 1) :
            LET j2 == j1 + (i2 - i1)
            IN  j2 \in 0..(LastKlen - 1) => TableRow(i1, j1) = TableRow(i2, j2)

\* two queries with memory: [0][0] and [1][1] both read table row qlen - 1
\* (relative distance mlen), and some entry was moved to another query's row
C7_Witness ==
    /\ step >= 1 /\ LastQlen >= 2 /\ LastMlen >= 1
    /\ TableRow(0, 0) = LastQlen - 1
    /\ TableRow(1, 1) = LastQlen - 1
    /\ \E i \in 0..(LastQlen - 1), j \in 0..(LastKlen - 1) :
          TableRow(i, j) >= 0 /\ QueryRow(i, j) # i

\* C8: with same_length = False, key column j is masked for query row i
\* exactly when j > mlen + i.
C8_CausalMask ==
    (step >= 1 /\ ~same_length) =>
        /\ Len(attn_mask) = LastQlen
        /\ \A i \in 0..(LastQlen - 1) :
              /\ Len(attn_mask[i + 1]) = LastKlen
              /\ \A j \in 0..(LastKlen - 1) :
                    /\ attn_mask[i + 1][j + 1] \in {0, 1}
                    /\ attn_mask[i + 1][j + 1] = 1 <=> j > LastMlen + i

\* a pass with memory and two queries: query 0 may not see the key of
\* query 1, query 1 may
C8_Witness ==
    /\ step >= 1 /\ ~same_length /\ LastMlen >= 1 /\ LastQlen >= 2
    /\ attn_mask[1][LastMlen + 2] = 1
    /\ attn_mask[2][LastMlen + 2] = 0
    /\ attn_mask[2][1] = 0

\* C9: with same_length = True, for every qlen >= 1 and mlen >= 0, the mask
\* is 0/1 and query row i may attend exactly the key columns i..i+mlen,
\* mlen + 1 keys for every query.
C9_BandMask ==
    (step >= 1 /\ same_length) =>
        /\ Len(attn_mask) = LastQlen
        /\ \A i \in 0..(LastQlen - 1) :
              /\ Len(attn_mask[i + 1]) = LastKlen
              /\ \A j \in 0..(LastKlen - 1) :
                    /\ attn_mask[i + 1][j + 1] \in {0, 1}
                    /\ attn_mask[i + 1][j + 1] = 0 <=> (i <= j /\ j <= i + LastMlen)
              /\ Cardinality({j \in 0..(LastKlen - 1) : attn_mask[i + 1][j + 1] = 0})
                    = LastMlen + 1

\* a memory shorter than the segment: the last query may not see the oldest
\* key, the first query may not see the newest
C9_Witness ==
    /\ step >= 1 /\ same_length
    /\ LastMlen >= 1 /\ LastMlen < LastQlen - 1
    /\ attn_mask[LastQlen][1] = 1
    /\ attn_mask[LastQlen][LastQlen] = 0
    /\ attn_mask[1][LastKlen] = 1

\* the length of the memory of layer i (1-based), 0 when there is none
MemLenOf(ms, i) == IF ms = None THEN 0 ELSE Len(ms.val[i])

\* C22: with a fixed mem_len > 0, from one pass to the next the memory of a
\* layer never gets shorter, and a memory of mem_len states keeps mem_len
\* states.
C22_MemoryNeverShrinks ==
    [][(mem_len > 0 /\ step' = step + 1) =>
        \A i \in Layers :
            /\ MemLenOf(mems', i) >= MemLenOf(mems, i)
            /\ MemLenOf(mems, i) = mem_len => MemLenOf(mems', i) = mem_len]_vars

\* C26: every entry [i][j] of rel_shift(BD) that is not the entry
\* [i][j + qlen - 1 - i] of BD is masked by _create_mask(qlen, mlen).
C26_MisalignedMasked ==
    step >= 1 =>
        \A i \in 0..(LastQlen - 1), j \in 0..(LastKlen - 1) :
            BD[i + 1][j + 1] # <<i, j + LastQlen - 1 - i>> =>
                attn_mask[i + 1][j + 1] >= 1

\* a pass with memory and two queries: an entry of the first row was wrapped
\* in from the second row of BD, another is padding, one is aligned
C26_Witness ==
    /\ step >= 1 /\ LastQlen >= 2 /\ LastMlen >= 1 /\ ~same_length
    /\ \E j \in 0..(LastKlen - 1) : QueryRow(0, j) = 1 /\ attn_mask[1][j + 1] = 1
    /\ \E j \in 0..(LastKlen - 1) : BD[1][j + 1] = Pad /\ attn_mask[1][j + 1] = 1
    /\ BD[1][1] = <<0, LastQlen - 1>> /\ attn_mask[1][1] = 0

IsSuffix(x, y) == \E k \in 0..Len(y) : x = SubSeq(y, k + 1, Len(y))

\* C27: a pass returns n_layer new memories; the i-th is cut from the end of
\* the old mems[i] followed by the input of layer i (the embeddings for
\* layer 0, the output of the layer before otherwise), or is the old
\* mems[i] when mem_len = 0; all memories have the length of mems[0].
C27_OneMemoryPerLayer ==
    /\ mems # None =>
          /\ Len(mems.val) = n_layer
          /\ \A i \in Layers : Len(mems.val[i]) = mlen_of(mems)
    /\ step >= 1 =>
          /\ mems # None
          /\ \A i \in Layers :
                LET old == IF LastOldMem(i) = None THEN <<>> ELSE LastOldMem(i).val
                IN  IF mem_len = 0 /\ LastOldMem(i) # None
                    THEN mems.val[i] = old
                    ELSE /\ IsSuffix(mems.val[i], old \o LastInput(i))
                         /\ mems.val[i] # <<>>
                         /\ mems.val[i][Len(mems.val[i])] = <<i - 1, step, LastQlen - 1>>

\* after two passes every layer's memory holds states of both passes
C27_Witness ==
    /\ step = 2 /\ mem_len >= 2 /\ n_layer >= 2
    /\ \A i \in Layers :
          /\ Len(mems.val[i]) = mem_len
          /\ mems.val[i][1][2] = 1
          /\ mems.val[i][Len(mems.val[i])] = <<i - 1, 2, LastQlen - 1>>

(***************************************************************************)
(* The adaptive softmax losses (model.py 235-416) on the batch of one      *)
(* core: the records of one shard of one window, parsed by                 *)
(* get_input_fn.input_fn.parser (data_utils_chinese.py 357-373).           *)
(* The loss of a position is kept symbolic: a term names the softmax, the  *)
(* hidden states that were summed into its input, and the column read;     *)
(* a loss is the bag of its terms and the count it is divided by.          *)
(***************************************************************************)
\* the records of one shard (data_utils_chinese.py 192-249): row after row,
\* the counters carried along
RECURSIVE shard_features(_, _, _, _, _, _)
shard_features(rows, cs, bins, icnts, tcnts, acc) ==
    IF rows = <<>> THEN acc
    ELSE LET inputs == SubSeq(Head(rows), 1, Len(Head(rows)) - 1)
             labels == SubSeq(Head(rows), 2, Len(Head(rows)))
         IN  shard_features(Tail(rows), cs, bins,
                 perm_feature(inputs, cs, icnts, bins).cnts,
                 perm_feature(labels, cs, tcnts, bins).cnts,
                 Append(acc, bucket_feature(inputs, labels, cs, bins,
                                            icnts, tcnts)))

\* _process_perm_feature (data_utils_chinese.py 357-373): reshape to
\* [cnt, 2], then sparse_to_dense into [tgt_len, bin_size]
process_perm_feature(cnt, tup, L, bin) ==
    LET pairs == [i \in 1..cnt |-> <<tup[2 * i - 1], tup[2 * i]>>]
    IN  [p \in 1..L |-> [k \in 1..bin |->
            IF \E i \in 1..cnt : pairs[i] = <<p - 1, k - 1>> THEN 1 ELSE 0]]

\* the model's cutoffs and n_token for the corpus cutoffs 0 = c0 < ... < ck
model_cutoffs(cs) == IF Len(cs) < 2 THEN <<>> ELSE SubSeq(cs, 2, Len(cs) - 1)
n_token_of(cs) == IF cs = <<>> THEN Cardinality(Tokens) ELSE cs[Len(cs)]

\* model.py 262, 347
cutoff_ends_of(mcs, n_token) == <<0>> \o mcs \o <<n_token>>

\* variant: the cluster columns are shifted by one
cluster_column_next(ends, i) == ends[2] + i

\* model.py 306: the head softmax column of the cluster of bucket i >= 1
cluster_column(ends, i) == ends[2] + i - 1

\* the positions of a [rows, tgt_len] batch
Positions(tg) == {<<r, p>> \in (1..Len(tg)) \X (1..MaxCells) : p <= Len(tg[r])}

\* the loss terms: the full softmax, the head softmax, and the tail softmax
\* of bucket i, of the sum of the hidden states of the positions hs, read
\* at a column
full_term(pos, col) == [softmax |-> "full", bucket |-> 0, hidden |-> {pos},
                        column |-> col]
head_term(pos, col) == [softmax |-> "head", bucket |-> 0, hidden |-> {pos},
                        column |-> col]
tail_term(i, hs, col) == [softmax |-> "tail", bucket |-> i, hidden |-> hs,
                          column |-> col]

RECURSIVE weight_in(_, _)
weight_in(entries, x) ==
    IF entries = <<>> THEN 0
    ELSE (IF Head(entries)[1] = x THEN Head(entries)[2] ELSE 0)
             + weight_in(Tail(entries), x)

\* the sum of weighted terms, as a bag
sum_of(entries) ==
    LET T == {entries[i][1] : i \in {j \in 1..Len(entries) : entries[j][2] > 0}}
    IN  [x \in T |-> weight_in(entries, x)]

RECURSIVE sum_over(_, _)
sum_over(S, f) ==
    IF S = {} THEN 0
    ELSE LET x == CHOOSE y \in S : TRUE
         IN  f[x] + sum_over(S \ {x}, f)

\* a set as a sequence, in some order
RECURSIVE seq_of(_)
seq_of(S) ==
    IF S = {} THEN <<>>
    ELSE LET x == CHOOSE y \in S : TRUE
         IN  <<x>> \o seq_of(S \ {x})

\* mask_adaptive_logsoftmax (model.py 235-313), return_mean=True
mask_adaptive_logsoftmax(tg, mcs, n_token) ==
    LET P == seq_of(Positions(tg))
        ends == cutoff_ends_of(mcs, n_token)
        at(pos) == tg[pos[1]][pos[2]]
        \* lines 264-308: the bucket i whose mask holds the position
        terms(pos, i) ==
            IF ~(at(pos) >= ends[i + 1] /\ at(pos) < ends[i + 2]) THEN <<>>
            ELSE IF i = 0
                 THEN <<<<head_term(pos, at(pos) - ends[i + 1]), 1>>>>
                 ELSE <<<<head_term(pos, cluster_column(ends, i)), 1>>,
                        <<tail_term(i, {pos}, at(pos) - ends[i + 1]), 1>>>>
    IN  IF Len(mcs) = 0
        THEN [sum |-> sum_of([n \in 1..Len(P) |-> <<full_term(P[n], at(P[n])), 1>>]),
              cnt |-> Len(P)]
        ELSE [sum |-> sum_of(Concat([n \in 1..(Len(P) * (Len(ends) - 1)) |->
                         terms(P[((n - 1) % Len(P)) + 1], (n - 1) \div Len(P))])),
              cnt |-> Len(P)]

\* variant: padding slots are counted as real ones
slot_mask_ones(perm, k) == 1

\* model.py 405: reduce_sum(perms[i], [0, 1]) at slot k
slot_mask(perm, k) ==
    sum_over({<<r, p>> \in (1..Len(perm)) \X (1..MaxCells) : p <= Len(perm[r])},
             [pos \in (1..Len(perm)) \X (1..MaxCells) |->
                 IF pos[2] <= Len(perm[pos[1]]) THEN perm[pos[1]][pos[2]][k]
                 ELSE 0])

\* mul_adaptive_logsoftmax (model.py 316-416)
mul_adaptive_logsoftmax(tg, ht, pm, bins, mcs, n_token) ==
    LET P == seq_of(Positions(tg))
        ends == cutoff_ends_of(mcs, n_token)
        at(pos) == tg[pos[1]][pos[2]]
        \* lines 376-383: the head losses, masked by perms[0]
        head_entries ==
            [n \in 1..Len(P) |->
                <<head_term(P[n], ht[P[n][1]][P[n][2]]), pm[1][P[n][1]][P[n][2]]>>]
        \* lines 392-408: slot k of bucket i
        in_slot(i, k) == {pos \in Positions(tg) : pm[i + 1][pos[1]][pos[2]][k] = 1}
        slot_entries(i, k) ==
            LET hs == in_slot(i, k)
                m  == slot_mask(pm[i + 1], k)
                tail_target == sum_over(hs, [pos \in hs |-> at(pos) - ends[i + 1]])
                H  == seq_of(hs)
            IN  [n \in 1..Len(H) |-> <<head_term(H[n], ht[H[n][1]][H[n][2]]), m>>]
                    \o <<<<tail_term(i, hs, tail_target), m>>>>
        slots == seq_of({<<i, k>> \in (1..Len(mcs)) \X (1..MaxCells) : k <= bins[i]})
        tail_entries ==
            Concat([n \in 1..Len(slots) |-> slot_entries(slots[n][1], slots[n][2])])
        total_cnt ==
            sum_over(Positions(tg), [pos \in Positions(tg) |-> pm[1][pos[1]][pos[2]]])
                + sum_over({<<i, k>> \in (1..Len(mcs)) \X (1..MaxCells) : k <= bins[i]},
                           [s \in (1..Len(mcs)) \X (1..MaxCells) |->
                               IF s[2] <= bins[s[1]] THEN slot_mask(pm[s[1] + 1], s[2])
                               ELSE 0])
    IN  IF Len(mcs) = 0
        THEN [sum |-> sum_of([n \in 1..Len(P) |-> <<full_term(P[n], at(P[n])), 1>>]),
              cnt |-> Len(P)]
        ELSE [sum |-> sum_of(head_entries \o tail_entries), cnt |-> total_cnt]

LossCutoffChoices == {<<>>, <<0, 3>>, <<0, 1, 3>>, <<0, 1, 2, 3>>}

\* the bin sizes of the runs, one per tail bucket
loss_bins(cs) == [b \in 1..Max(0, Len(cs) - 2) |-> b]

\* the batch of one core in static mode: every row starts with token 0 and
\* goes on with its tgt_len labels
InitLoss ==
    /\ \E R \in 1..MaxCoreBsz, L \in 1..MaxTgtLen :
        /\ R * L <= MaxCells
        /\ \E tg \in [1..R -> [1..L -> Tokens]], cs \in LossCutoffChoices :
            LET bins == IF Len(cs) = 3 THEN <<2>> ELSE loss_bins(cs)
                fs   == shard_features([r \in 1..R |-> <<0>> \o tg[r]], cs, bins,
                                       fresh_cnts(bins), fresh_cnts(bins), <<>>)
            IN  /\ batch_size = R /\ tgt_len = L /\ cutoffs = cs
                /\ bin_sizes = bins
                /\ target = tg
                /\ IF with_buckets(cs, TRUE)
                   THEN /\ head_target = [r \in 1..R |-> fs[r].head_labels]
                        /\ perms = <<[r \in 1..R |-> fs[r].tgt_mask]>> \o
                              [b \in 1..Len(bins) |-> [r \in 1..R |->
                                  process_perm_feature(fs[r].tgt_cnt[b],
                                      fs[r].tgt_tup[b], L, bins[b])]]
                   ELSE head_target = <<>> /\ perms = <<>>
    /\ mul_nll = None /\ mask_nll = None
    /\ pc = "loss"
    /\ use_tpu = TRUE /\ num_core_per_host = 1 /\ num_passes = 1
    /\ data = <<>> /\ batched_data = <<>> /\ t = 0 /\ idx = 0
    /\ inp_cnts = <<>> /\ tgt_cnts = <<>> /\ num_batch = 0 /\ records = <<>>
    /\ XLIdle /\ BinIdle /\ NameIdle /\ HostIdle /\ FeedIdle

lossFrame == <<encArgs, encVars, xlArgs, xlVars, binVars, nameVars, hostVars,
               feedVars, target, head_target, perms>>

MulAdaptiveLogsoftmax ==
    /\ pc = "loss" /\ mul_nll = None
    /\ mul_nll' = Some(mul_adaptive_logsoftmax(target, head_target, perms,
                           bin_sizes, model_cutoffs(cutoffs), n_token_of(cutoffs)))
    /\ UNCHANGED <<mask_nll, lossFrame>>

MaskAdaptiveLogsoftmax ==
    /\ pc = "loss" /\ mask_nll = None
    /\ mask_nll' = Some(mask_adaptive_logsoftmax(target,
                            model_cutoffs(cutoffs), n_token_of(cutoffs)))
    /\ UNCHANGED <<mul_nll, lossFrame>>

NextLoss ==
    \/ MulAdaptiveLogsoftmax
    \/ MaskAdaptiveLogsoftmax

SpecLoss == InitLoss /\ [][NextLoss]_vars

(***************************************************************************)
(* The batch read back: the bucket of a label, and the tail labels that    *)
(* capacity leaves a slot for, counted in the order the shard is written.  *)
(***************************************************************************)
Ends == cutoff_ends_of(model_cutoffs(cutoffs), n_token_of(cutoffs))
LabelAt(pos) == target[pos[1]][pos[2]]

\* the bucket of the model (0 the head, i >= 1 the tail bucket i - 1)
BucketOf(pos) ==
    CHOOSE i \in 0..(Len(Ends) - 2) :
        LabelAt(pos) >= Ends[i + 1] /\ LabelAt(pos) < Ends[i + 2]

HeadTargets == {pos \in Positions(target) : BucketOf(pos) = 0}
TailTargets == Positions(target) \ HeadTargets

Before(q, pos) == q[1] < pos[1] \/ (q[1] = pos[1] /\ q[2] < pos[2])

SlotAssigned ==
    {pos \in TailTargets :
        Cardinality({q \in TailTargets :
            BucketOf(q) = BucketOf(pos) /\ Before(q, pos)})
                < bin_sizes[BucketOf(pos)]}

Truncated == TailTargets \ SlotAssigned

\* the terms of a target that is counted once
TermsOf(pos) ==
    IF BucketOf(pos) = 0 THEN {head_term(pos, LabelAt(pos))}
    ELSE {head_term(pos, Ends[2] + BucketOf(pos) - 1),
          tail_term(BucketOf(pos), {pos}, LabelAt(pos) - Ends[BucketOf(pos) + 1])}

\* C16: in permutation mode with cutoffs the loss is the sum of the masked
\* losses over the sum of the indicator, and counts every head target once,
\* every tail target that has a slot once (its head cluster loss plus its
\* tail loss) and no truncated tail target; the denominator is the number of
\* head targets plus the number of slot-assigned tail targets.
C16_EachTargetOnce ==
    (mul_nll # None /\ Len(model_cutoffs(cutoffs)) > 0) =>
        LET counted == HeadTargets \cup SlotAssigned
        IN  /\ mul_nll.val.sum =
                  [x \in UNION {TermsOf(pos) : pos \in counted} |-> 1]
            /\ mul_nll.val.cnt = Cardinality(HeadTargets) + Cardinality(SlotAssigned)
            /\ \A x \in DOMAIN mul_nll.val.sum : x.hidden \cap Truncated = {}

\* the loss of a batch with a head target, a tail target in a slot and a
\* truncated tail target
C16_Witness ==
    /\ mul_nll # None /\ Len(model_cutoffs(cutoffs)) > 0
    /\ HeadTargets # {} /\ SlotAssigned # {} /\ Truncated # {}
    /\ mul_nll.val.cnt = Cardinality(HeadTargets) + Cardinality(SlotAssigned)
    /\ mul_nll.val.cnt < Cardinality(Positions(target))

\* C17: when no bucket overflows its bin size, the permutation-mode loss is
\* the masked-mode mean loss: the same terms over the same count.
C17_LossesAgree ==
    (mul_nll # None /\ mask_nll # None /\ Truncated = {}) =>
        mul_nll.val = mask_nll.val

\* both losses of a batch of two rows, each with a tail target, no overflow
C17_Witness ==
    /\ mul_nll # None /\ mask_nll # None /\ Truncated = {}
    /\ Len(target) = 2 /\ HeadTargets # {}
    /\ \A r \in 1..2 : \E pos \in TailTargets : pos[1] = r
    /\ mul_nll.val.cnt = Cardinality(Positions(target))

\* C18: in a record with buckets, head_labels is the label for a head label
\* and cutoffs[1] + b for a label of tail bucket b, truncated or not; it
\* lies in [0, cutoffs[1] + number of tail buckets) and is the column of
\* the head softmax the model reads for that label, the cluster column
\* cutoff_ends[1] + i - 1 of bucket i = b + 1.
C18_HeadLabelsAreColumns ==
    Len(cutoffs) > 0 =>
        /\ \A pos \in Positions(target) :
              LET hl == head_target[pos[1]][pos[2]]
                  i  == BucketOf(pos)
              IN  /\ i = 0 => hl = LabelAt(pos)
                  /\ i >= 1 => /\ hl = cutoffs[2] + (i - 1)
                               /\ hl = cluster_column(Ends, i)
                  /\ hl >= 0 /\ hl < cutoffs[2] + Len(bin_sizes)
        /\ mask_nll # None /\ Len(model_cutoffs(cutoffs)) > 0 =>
              \A pos \in Positions(target) :
                  head_term(pos, head_target[pos[1]][pos[2]])
                      \in DOMAIN mask_nll.val.sum

\* a batch with a truncated label of the second tail bucket, whose
\* masked-mode loss was computed
C18_Witness ==
    /\ Len(cutoffs) = 4 /\ mask_nll # None
    /\ \E pos \in Truncated :
          /\ BucketOf(pos) = 2
          /\ head_target[pos[1]][pos[2]] = cutoffs[2] + 1

(***************************************************************************)
(* The producer's records fed to get_input_fn.input_fn                     *)
(* (data_utils_chinese.py 348-459) on one host, for training:              *)
(* convert_to_tfrecords takes bin_sizes from get_bin_sizes and runs        *)
(* create_ordered_tfrecords, which writes one data file; then the parser   *)
(* is mapped over the host's records and batches of per_core_bsz examples  *)
(* are handed out.                                                         *)
(***************************************************************************)
MaxFeedBsz     == 5   \* largest batch_size of the fed runs
MaxFeedStep    == 3   \* most columns of the grid of the fed runs
MaxFeedHosts   == 2   \* largest num_hosts of the fed runs
MaxFeedBatches == 3   \* batches handed out

\* lines 84-85, 112-127: one capacity per tail bucket
bin_sizes_of(d, bsz, L, cs) ==
    [b \in 1..Len(tail_buckets(cs)) |->
        nearest_to_eight(ceil_capacity(d, bsz, L, tail_buckets(cs)[b][1],
                                       tail_buckets(cs)[b][2], std_mult[b]))]

\* variant: the bucket features are expected whenever the mode is static
expects_buckets_static(bins, tpu) == tpu

\* lines 388, 407: `if bin_sizes and use_tpu`
expects_buckets(bins, tpu) == bins # <<>> /\ tpu

\* lines 375-399: record_spec, the names of the FixedLenFeature entries of
\* length tgt_len and the number of buckets with cnt and tup entries
record_spec(bins, tpu) ==
    [fixed_len |-> (IF tpu THEN {"inputs", "labels"} ELSE {}) \cup
                   (IF expects_buckets(bins, tpu)
                    THEN {"inp_mask", "tgt_mask", "head_labels"} ELSE {}),
     var_len   |-> IF tpu THEN {} ELSE {"inputs", "labels"},
     buckets   |-> IF expects_buckets(bins, tpu) THEN Len(bins) ELSE 0]

\* lines 359-373: the reshape to [cnt, 2] and the indices of sparse_to_dense
\* are valid
perm_valid(cnt, tup, L, bin) ==
    /\ Len(tup) = 2 * cnt
    /\ \A i \in 1..cnt : /\ tup[2 * i - 1] \in 0..(L - 1)
                         /\ tup[2 * i] \in 0..(bin - 1)
    /\ \A i \in 1..(cnt - 1) :
          \/ tup[2 * i - 1] < tup[2 * i + 1]
          \/ tup[2 * i - 1] = tup[2 * i + 1] /\ tup[2 * i] < tup[2 * i + 2]

\* lines 402-404: parse_single_example finds every feature it needs
parse_valid(f, bins, tpu, L) ==
    LET rs == record_spec(bins, tpu)
    IN  /\ \A key \in rs.fixed_len : key \in DOMAIN f /\ Len(f[key]) = L
        /\ rs.buckets > 0 =>
              /\ {"inp_cnt", "inp_tup", "tgt_cnt", "tgt_tup"} \subseteq DOMAIN f
              /\ Len(f.inp_cnt) >= rs.buckets /\ Len(f.tgt_cnt) >= rs.buckets
              /\ \A b \in 1..rs.buckets :
                    /\ perm_valid(f.inp_cnt[b], f.inp_tup[b], L, bins[b])
                    /\ perm_valid(f.tgt_cnt[b], f.tgt_tup[b], L, bins[b])

\* lines 355-424: parser; None when parsing or the conversion fails
parser(f, bins, tpu, L) ==
    IF ~parse_valid(f, bins, tpu, L) THEN None
    ELSE IF ~tpu THEN Some(<<f.inputs, f.labels>>)
    ELSE IF expects_buckets(bins, tpu)
         THEN Some([inputs      |-> f.inputs,
                    labels      |-> f.labels,
                    inp_mask    |-> f.inp_mask,
                    tgt_mask    |-> f.tgt_mask,
                    head_labels |-> f.head_labels,
                    inp_perm    |-> [b \in 1..Len(bins) |->
                        process_perm_feature(f.inp_cnt[b], f.inp_tup[b], L,
                                             bins[b])],
                    tgt_perm    |-> [b \in 1..Len(bins) |->
                        process_perm_feature(f.tgt_cnt[b], f.tgt_tup[b], L,
                                             bins[b])]])
         ELSE Some([inputs |-> f.inputs, labels |-> f.labels])

\* lines 433-447: the records of the one data file that this host reads
host_records(rs, h, H, nb, C, P) ==
    IF H > 1
    THEN skip_take(rs, my_start_sample_id(h, nb \div H, C, P),
                   my_sample_num(nb \div H, C, P))
    ELSE rs

\* lines 449-450: element n (0-based) of repeat().batch(P, drop_remainder)
batch_of(ds, n, P) ==
    [r \in 1..P |-> ds[((n * P + r - 1) % Len(ds)) + 1]]

FeedCutoffChoices == {<<>>, <<0, 3>>, <<0, 1, 3>>, <<0, 1, 2, 3>>}

\* token sequences that repeat a short pattern
FeedData(n) ==
    {[i \in 1..n |-> (a + b * i) % Cardinality(Tokens)] :
        a \in Tokens, b \in Tokens}

InitFeed ==
    /\ \E bsz \in 1..MaxFeedBsz, S \in 2..MaxFeedStep, L \in 1..MaxTgtLen,
          cores \in CoreChoices, cs \in FeedCutoffChoices, tpu \in BOOLEAN,
          H \in 1..MaxFeedHosts :
          \E d \in FeedData(bsz * S), h \in 0..(H - 1) :
             /\ cores <= bsz
             \* get_bin_sizes returns (lines 112-113, 124)
             /\ Len(tail_buckets(cs)) > 0 =>
                   windows_of(d, bsz \div cores, L) >= 1
             /\ Call(d, bsz, L, cores, cs,
                     bin_sizes_of(d, bsz \div cores, L, cs), 1, tpu, <<>>)
             /\ num_hosts = H /\ host_id = h
             /\ per_core_bsz = bsz \div cores
    /\ t = 0 /\ idx = 0 /\ inp_cnts = <<>> /\ tgt_cnts = <<>>
    /\ num_batch = 0 /\ records = <<>> /\ pc = "for_t"
    /\ file_lens = <<>> /\ host_reads = <<>>
    /\ dataset = <<>> /\ batches = <<>>
    /\ XLIdle /\ BinIdle /\ NameIdle /\ LossIdle

feedFrame == <<encArgs, xlArgs, xlVars, binVars, nameVars, hostVars, lossVars,
               host_id, batched_data, t, idx, inp_cnts, tgt_cnts, num_batch,
               records>>

\* lines 431-449: the host's records are read, parsed and cached
MapParser ==
    /\ pc = "done"
    /\ LET mine   == host_records(records, host_id, num_hosts, num_batch,
                                  num_core_per_host, per_core_bsz)
           parsed == [i \in 1..Len(mine) |->
                         parser(mine[i], bin_sizes, use_tpu, tgt_len)]
       IN  /\ dataset' = parsed
           /\ pc' = IF \A i \in 1..Len(parsed) : parsed[i] # None
                    THEN "batch" ELSE "InvalidArgumentError"
    /\ UNCHANGED batches
    /\ UNCHANGED feedFrame

\* lines 449-450: the next batch of the repeated dataset
NextBatch ==
    /\ pc = "batch"
    /\ Len(dataset) > 0
    /\ Len(batches) < MaxFeedBatches
    /\ batches' = Append(batches,
                         batch_of([i \in 1..Len(dataset) |-> dataset[i].val],
                                  Len(batches), per_core_bsz))
    /\ UNCHANGED <<dataset, pc>>
    /\ UNCHANGED feedFrame

NextFeed ==
    \/ NextWindow
    \/ DropRemainder
    \/ LoopEnd
    \/ WriteRecord
    \/ EndWindow
    \/ MapParser
    \/ NextBatch

SpecFeed == InitFeed /\ [][NextFeed]_vars

\* the bucket features of a written record and the ones the parser expects
MaskFeatures == {"inp_mask", "tgt_mask", "head_labels"}
WrittenMasks(f)   == MaskFeatures \cap DOMAIN f
WrittenBuckets(f) == IF HasBuckets(f) THEN Len(f.inp_cnt) ELSE 0
ExpectedMasks     == MaskFeatures \cap record_spec(bin_sizes, use_tpu).fixed_len
ExpectedBuckets   == record_spec(bin_sizes, use_tpu).buckets

\* every written (position, slot) pair of the first n buckets is an index of
\* the parser's [tgt_len, bin_sizes[b]] matrix
PairsFit(f, n) ==
    \A prefix \in Prefixes, b \in 1..n :
        \A i \in 1..Len(PairsOf(TupOf(f, prefix, b))) :
            /\ PairsOf(TupOf(f, prefix, b))[i][1] \in 0..(tgt_len - 1)
            /\ PairsOf(TupOf(f, prefix, b))[i][2] \in 0..(bin_sizes[b] - 1)

\* C24 as stated: every record holds inp_mask, tgt_mask, head_labels and
\* the cnt/tup features of a bucket exactly when the parser built from the
\* manifest's bin_sizes expects them, and every written pair fits the
\* parser's matrix.
C24_FeaturesAgree ==
    \A k \in 1..Len(records) :
        /\ WrittenMasks(records[k]) = ExpectedMasks
        /\ WrittenBuckets(records[k]) = ExpectedBuckets
        /\ PairsFit(records[k], WrittenBuckets(records[k]))

\* C24 amended: every feature the parser expects is written, with one cnt
\* and one tup per expected bucket, every written pair fits the parser's
\* matrix, and parsing succeeds with a matrix that holds one 1 per written
\* pair; a written feature the parser does not expect is inp_mask, tgt_mask
\* or head_labels of a static run with cutoffs of length 2.
C24_ExpectedIsWritten ==
    /\ \A k \in 1..Len(records) :
          /\ ExpectedMasks \subseteq WrittenMasks(records[k])
          /\ WrittenBuckets(records[k]) = ExpectedBuckets
          /\ PairsFit(records[k], ExpectedBuckets)
          /\ WrittenMasks(records[k]) # ExpectedMasks =>
                /\ use_tpu /\ Len(cutoffs) = 2 /\ bin_sizes = <<>>
                /\ WrittenMasks(records[k]) = MaskFeatures
                /\ ExpectedMasks = {}
    /\ pc # "InvalidArgumentError"
    /\ \A n \in 1..Len(batches), r \in 1..per_core_bsz, b \in 1..ExpectedBuckets :
          \E k \in 1..Len(records) :
              /\ batches[n][r].labels = records[k].labels
              /\ \A p \in 1..tgt_len, c \in 1..bin_sizes[b] :
                    batches[n][r].tgt_perm[b][p][c] = 1 <=>
                        \E i \in 1..records[k].tgt_cnt[b] :
                            PairsOf(records[k].tgt_tup[b])[i] = <<p - 1, c - 1>>

\* a static run with two tail buckets whose batch holds a matrix with a 1,
\* and (in another run) a record with masks the parser does not expect
C24_Witness ==
    /\ Len(batches) >= 1 /\ ExpectedBuckets = 2
    /\ \E r \in 1..per_core_bsz, p \in 1..tgt_len, c \in 1..bin_sizes[2] :
          batches[1][r].tgt_perm[2][p][c] = 1

C24_WitnessHeadOnly ==
    /\ Len(batches) >= 1 /\ Len(cutoffs) = 2 /\ use_tpu
    /\ WrittenMasks(records[1]) = MaskFeatures /\ ExpectedMasks = {}
    /\ DOMAIN batches[1][1] = {"inputs", "labels"}

\* the record (1-based) behind row r of batch n, both 1-based: the host's
\* records start after the skip and are repeated
FeedStart ==
    IF num_hosts > 1
    THEN Min(my_start_sample_id(host_id, num_batch \div num_hosts,
                                num_core_per_host, per_core_bsz),
             Len(records))
    ELSE 0
RecordOfRow(n, r) ==
    FeedStart + (((n - 1) * per_core_bsz + r - 1) % Len(dataset)) + 1

SlotsOf(f, prefix, b) ==
    {SlotSeqOf(TupOf(f, prefix, b))[i] :
        i \in 1..Len(SlotSeqOf(TupOf(f, prefix, b)))}

\* C25: the rows of every batch handed out are records of one core shard
\* of one window of the producer, and no two of them hold the same slot of
\* a bucket.
C25_BatchInOneShard ==
    \A n \in 1..Len(batches), r1 \in 1..per_core_bsz, r2 \in 1..per_core_bsz :
        LET k1 == RecordOfRow(n, r1)
            k2 == RecordOfRow(n, r2)
        IN  /\ batches[n][r1] = parser(records[k1], bin_sizes, use_tpu,
                                       tgt_len).val
            /\ WindowOf(k1) = WindowOf(k2)
            /\ ShardStart(RowOf(k1)) = ShardStart(RowOf(k2))
            /\ (r1 # r2 /\ HasBuckets(records[k1])) =>
                  \A prefix \in Prefixes, b \in TailBuckets :
                      SlotsOf(records[k1], prefix, b) \cap
                      SlotsOf(records[k2], prefix, b) = {}

\* the same for a batch_size that num_core_per_host divides
C25_DivisibleBatchInOneShard ==
    batch_size % num_core_per_host = 0 => C25_BatchInOneShard

====
